---- MODULE Spec2Model ----
(***************************************************************************)
(* The audit system's detectors.                                           *)
(*                                                                         *)
(* The rule-based fraud detector (agents/standalone_fraud_agent.py): the   *)
(* loading of the transactions file, five rule evaluators over the         *)
(* transaction table, the deduplication of their violations and the        *)
(* report.  Text is modelled as sequences of one-character strings, so     *)
(* that lower-casing, substring search, whitespace splitting, number and   *)
(* date parsing and string ordering are computed as Python computes them.  *)
(* Amounts are whole currency units and dates are day numbers.             *)
(*                                                                         *)
(* The two detectors that ask the language model for a judgment            *)
(* (agents/conspiracy_agent.py, agents/contextual_fraud_agent.py): the     *)
(* filtering of the emails, the calls of the model, the parsing and        *)
(* checking of its responses and the reports.                              *)
(***************************************************************************)
EXTENDS Integers, Sequences, FiniteSets, TLC

(* The rule-based detector: the transactions file, the locals of          *)
(* analyze_transactions, what an earlier call of it returned, and the      *)
(* evaluators that have returned.                                          *)
VARIABLES csv, pc, df, has_categoria, prohibited_items, unauthorized_amounts,
          smurfing_cases, restricted_locations, suspicious_categories,
          fraudulent_transactions, unique_frauds, result, previous, returned

(* The detectors that consult the language model: which of them runs, its  *)
(* position, the emails, the emails its loop has still to visit, the       *)
(* attempt and the number of calls made for the email at hand, the last    *)
(* response, the analysis it was turned into, and the findings.            *)
VARIABLES agent, apc, emails, todo, attempt, calls, response, analysis,
          suspicious_emails, contextual_frauds, report

standalone_vars ==
  <<csv, pc, df, has_categoria, prohibited_items, unauthorized_amounts,
    smurfing_cases, restricted_locations, suspicious_categories,
    fraudulent_transactions, unique_frauds, result, previous, returned>>

semantic_vars ==
  <<agent, apc, emails, todo, attempt, calls, response, analysis,
    suspicious_emails, contextual_frauds, report>>

(* The program around the detectors: the violations file that was written, *)
(* the emails file, and the menu of main: where it stands, whether the     *)
(* data files are there, the inputs read at its prompt, the agents run for *)
(* the last of them, the agents run_all_agents has still to run.           *)
VARIABLES saved, content, menu, data_files, chosen, log, pending

main_vars == <<saved, content, menu, data_files, chosen, log, pending>>

main_but_saved == <<content, menu, data_files, chosen, log, pending>>

menu_vars == <<menu, data_files, chosen, log, pending>>

semantic_but_calls ==
  <<agent, apc, emails, todo, attempt, response, analysis, suspicious_emails,
    contextual_frauds, report>>

vars == <<standalone_vars, semantic_vars, main_vars>>

(* Largest number of rows of a transaction table. *)
MaxRows == 3

-----------------------------------------------------------------------------
(* Text primitives: str.lower, the `in` substring test, str.split and the  *)
(* code-point order of strings.                                            *)

CodePoints ==
  << " ", "-", ".", "0", "1", "2", "3", "4", "5", "6", "7", "8", "9",
     "A", "B", "C", "D", "E", "F", "G", "H", "I", "J", "K", "L", "M",
     "N", "O", "P", "Q", "R", "S", "T", "U", "V", "W", "X", "Y", "Z",
     "a", "b", "c", "d", "e", "f", "g", "h", "i", "j", "k", "l", "m",
     "n", "o", "p", "q", "r", "s", "t", "u", "v", "w", "x", "y", "z",
     "Á", "Â", "Ç", "Ê", "Ó", "á", "â", "ç", "ê", "ó" >>

UpperCase ==
  << "A", "B", "C", "D", "E", "F", "G", "H", "I", "J", "K", "L", "M",
     "N", "O", "P", "Q", "R", "S", "T", "U", "V", "W", "X", "Y", "Z",
     "Á", "Â", "Ç", "Ê", "Ó" >>

LowerCase ==
  << "a", "b", "c", "d", "e", "f", "g", "h", "i", "j", "k", "l", "m",
     "n", "o", "p", "q", "r", "s", "t", "u", "v", "w", "x", "y", "z",
     "á", "â", "ç", "ê", "ó" >>

Whitespace == {" "}

ord(c) == CHOOSE i \in 1..Len(CodePoints) : CodePoints[i] = c

lower_char(c) ==
  IF \E i \in 1..Len(UpperCase) : UpperCase[i] = c
  THEN LowerCase[CHOOSE i \in 1..Len(UpperCase) : UpperCase[i] = c]
  ELSE c

lower(s) == [i \in 1..Len(s) |-> lower_char(s[i])]

(* Python's `needle in hay` on strings. *)
contains(needle, hay) ==
  \E i \in 0..(Len(hay) - Len(needle)) :
     \A k \in 1..Len(needle) : hay[i + k] = needle[k]

(* str.split(): the maximal runs of non-whitespace characters, in order. *)
RECURSIVE split_from(_, _, _)
split_from(s, i, word) ==
  IF i > Len(s)
  THEN IF word = <<>> THEN <<>> ELSE <<word>>
  ELSE IF s[i] \in Whitespace
       THEN IF word = <<>> THEN split_from(s, i + 1, <<>>)
            ELSE <<word>> \o split_from(s, i + 1, <<>>)
       ELSE split_from(s, i + 1, Append(word, s[i]))

split(s) == split_from(s, 1, <<>>)

(* set(...) of a list. *)
to_set(seq) == {seq[i] : i \in 1..Len(seq)}

(* a < b on strings: lexicographic by code point. *)
RECURSIVE str_less_from(_, _, _)
str_less_from(a, b, i) ==
  IF i > Len(b) THEN FALSE
  ELSE IF i > Len(a) THEN TRUE
  ELSE IF a[i] = b[i] THEN str_less_from(a, b, i + 1)
  ELSE ord(a[i]) < ord(b[i])

str_less(a, b) == str_less_from(a, b, 1)

-----------------------------------------------------------------------------
(* The deny-lists and thresholds of the rules. *)

prohibited_keywords ==
  << <<"m", "á", "g", "i", "c", "a">>,
     <<"m", "a", "g", "i", "c">>,
     <<"k", "a", "r", "a", "o", "k", "ê">>,
     <<"k", "a", "r", "a", "o", "k", "e">>,
     <<"a", "l", "g", "e", "m", "a">>,
     <<"h", "a", "n", "d", "c", "u", "f", "f">>,
     <<"c", "o", "r", "r", "e", "n", "t", "e">>,
     <<"c", "h", "a", "i", "n">>,
     <<"f", "u", "m", "a", "ç", "a">>,
     <<"s", "m", "o", "k", "e">>,
     <<"p", "o", "m", "b", "o">>,
     <<"p", "i", "g", "e", "o", "n">>,
     <<"s", "t", "r", "i", "p", "p", "e", "r">>,
     <<"b", "a", "r", "a", "l", "h", "o", " ", "m", "a", "r", "c", "a", "d", "o">>,
     <<"d", "i", "s", "c", "o", "t", "e", "c", "a">>,
     <<"d", "i", "s", "c", "o">>,
     <<"a", "r", "m", "a">>,
     <<"w", "e", "a", "p", "o", "n">>,
     <<"g", "u", "n">>,
     <<"a", "i", "r", "s", "o", "f", "t">>,
     <<"e", "s", "p", "a", "d", "a">>,
     <<"s", "w", "o", "r", "d">>,
     <<"k", "a", "t", "a", "n", "a">>,
     <<"n", "i", "n", "j", "a">>,
     <<"n", "u", "n", "c", "h", "a", "k", "u">>,
     <<"s", "p", "r", "a", "y", " ", "d", "e", " ", "p", "i", "m", "e", "n", "t", "a">>,
     <<"p", "e", "p", "p", "e", "r", " ", "s", "p", "r", "a", "y">>,
     <<"c", "a", "m", "u", "f", "l", "a", "g", "e", "m">>,
     <<"c", "a", "m", "o", "u", "f", "l", "a", "g", "e">>,
     <<"a", "r", "m", "a", "d", "i", "l", "h", "a">>,
     <<"t", "r", "a", "p">>,
     <<"v", "e", "l", "a", " ", "a", "r", "t", "e", "s", "a", "n", "a", "l">>,
     <<"c", "a", "n", "d", "l", "e">>,
     <<"s", "t", "a", "r", "t", "u", "p">>,
     <<"r", "e", "d", "e", " ", "s", "o", "c", "i", "a", "l">>,
     <<"s", "o", "c", "i", "a", "l", " ", "n", "e", "t", "w", "o", "r", "k">>,
     <<"b", "e", "t", "e", "r", "r", "a", "b", "a">>,
     <<"b", "e", "e", "t">>,
     <<"b", "i", "n", "ó", "c", "u", "l", "o">>,
     <<"b", "i", "n", "o", "c", "u", "l", "a", "r">>,
     <<"v", "i", "g", "i", "l", "â", "n", "c", "i", "a">>,
     <<"s", "u", "r", "v", "e", "i", "l", "l", "a", "n", "c", "e">>,
     <<"w", "a", "l", "k", "i", "e", " ", "t", "a", "l", "k", "i", "e">>,
     <<"w", "a", "l", "k", "i", "e", "-", "t", "a", "l", "k", "i", "e">> >>

restricted_location_names ==
  << <<"h", "o", "o", "t", "e", "r", "s">>, <<"h", "o", "o", "t", "e", "r">> >>

approval_markers ==
  << <<"p", "o">>,
     <<"p", "u", "r", "c", "h", "a", "s", "e", " ", "o", "r", "d", "e", "r">>,
     <<"p", ".", "o", ".">> >>

high_value_threshold == 500

smurfing_floor == 300

(* Mutant: the amount range of the split purchases reaches 600. *)
smurfing_ceiling_raised == high_value_threshold + 100

smurfing_ceiling == 500

severity_prohibited == 9

severity_unauthorized == 7

severity_smurfing == 10

severity_restricted == 6

severity_suspicious == 7

-----------------------------------------------------------------------------
(* The transactions file and the transaction table.  A row is the record   *)
(* row.to_dict() gives; a cell that pandas read as missing is NaN, which   *)
(* is no text.  The file holds the amounts and the dates as text.          *)

NaN == <<"NaN">>

is_text(v) == v # NaN

T1 == <<"T", "1">>

T2 == <<"T", "2">>

T3 == <<"T", "3">>

Jim == <<"J", "i", "m">>

Dwight == <<"D", "w", "i", "g", "h", "t">>

InkA == <<"I", "n", "k", " ", "j", "e", "t", " ", "k", "i", "t", " ", "A">>

InkGunCaps ==
  <<"I", "n", "k", " ", "J", "e", "t", " ", "K", "i", "t", " ", "a", " ", "G", "u", "n">>

InkB == <<"i", "n", "k", " ", "j", "e", "t", " ", "k", "i", "t", " ", "B">>

KatanaSword == <<"K", "a", "t", "a", "n", "a", " ", "S", "w", "o", "r", "d">>

HootersPO == <<"H", "o", "o", "t", "e", "r", "s", " ", "P", "O">>

SportKit == <<"S", "p", "o", "r", "t", " ", "k", "i", "t">>

Blank == <<" ">>

Seguranca == <<"S", "e", "g", "u", "r", "a", "n", "ç", "a">>

Security == <<"S", "e", "c", "u", "r", "i", "t", "y">>

Escritorio == <<"E", "s", "c", "r", "i", "t", "ó", "r", "i", "o">>

Day1 == <<"2", "0", "2", "4", "-", "0", "1", "-", "0", "1">>

Day2 == <<"2", "0", "2", "4", "-", "0", "1", "-", "0", "2">>

Row(id, f, d, v, desc, cat) ==
  [id_transacao |-> id, funcionario |-> f, data |-> d, valor |-> v,
   descricao |-> desc, categoria |-> cat]

(* The rows a file is drawn from.  The Ink descriptions have word sets     *)
(* that are equal (InkA twice), 4/5 alike (InkGunCaps, InkA), 3/5 alike    *)
(* (InkA, InkB) and 1/2 alike (InkGunCaps, InkB); amounts sit below, on    *)
(* and above the 300 and 500 thresholds; ids repeat, on equal and on       *)
(* different rows; there is another employee and another day, deny-listed  *)
(* words, an approval marker, both spellings of the security category, a   *)
(* blank and a missing description, a description with the letters of an  *)
(* approval marker inside a word, an amount that is no number and a date   *)
(* that is no date.                                                        *)
RowPool ==
  { Row(T1, Jim,    Day1, <<"4", "0", "0">>, InkA,        Escritorio),
    Row(T2, Jim,    Day1, <<"3", "5", "0">>, InkGunCaps,  Seguranca),
    Row(T3, Jim,    Day1, <<"3", "0", "0">>, InkA,        Escritorio),
    Row(T3, Jim,    Day1, <<"4", "5", "0">>, InkA,        Escritorio),
    Row(T3, Jim,    Day1, <<"5", "0", "0">>, InkB,        NaN),
    Row(T2, Jim,    Day1, <<"2", "0", "0">>, InkA,        Escritorio),
    Row(T1, Dwight, Day1, <<"4", "0", "0">>, InkA,        Escritorio),
    Row(T3, Jim,    Day2, <<"4", "0", "0">>, InkA,        Escritorio),
    Row(T2, Jim,    Day1, <<"6", "0", "0">>, KatanaSword, Seguranca),
    Row(T1, Jim,    Day1, <<"6", "0", "0">>, InkA,        Seguranca),
    Row(T3, Jim,    Day2, <<"6", "0", "0">>, HootersPO,   Security),
    Row(T2, Jim,    Day1, <<"4", "0", "0">>, Blank,       Escritorio),
    Row(T1, Jim,    Day1, <<"4", "0", "0">>, NaN,         Escritorio),
    Row(T2, Dwight, Day2, <<"6", "0", "0">>, SportKit,    Escritorio),
    Row(T2, Jim,    Day1, <<"4", "0", "0", "x">>, InkA,   Escritorio),
    Row(T1, Jim,    <<"2", "0", "2", "4", "-", "1", "3", "-", "0", "1">>,
                          <<"3", "5", "0">>, InkA,        Escritorio) }

all_columns ==
  {"id_transacao", "funcionario", "data", "valor", "descricao", "categoria"}

(* The header lines a file may have: every column, no categoria column,    *)
(* and three that lack required columns.                                   *)
Headers ==
  { all_columns,
    all_columns \ {"categoria"},
    all_columns \ {"valor"},
    all_columns \ {"descricao", "categoria"},
    all_columns \ {"id_transacao", "funcionario", "data"} }

(* pd.read_csv: a file is its header and its rows, each row a cell per     *)
(* column of the header.                                                   *)
read_csv(header, lines) ==
  [columns |-> header,
   rows |-> [i \in 1..Len(lines) |-> [k \in header |-> lines[i][k]]]]

CsvFiles(max_rows) ==
  { read_csv(header, lines) :
      header \in Headers,
      lines \in UNION {[1..n -> RowPool] : n \in 0..max_rows} }

(* Mutant: the description is not among the required columns. *)
required_without_descricao == <<"id_transacao", "funcionario", "data", "valor">>

required_columns ==
  <<"id_transacao", "funcionario", "data", "valor", "descricao">>

(* [col for col in required_columns if col not in df.columns] *)
missing_columns(columns) ==
  LET absent(col) == col \notin columns IN SelectSeq(required_columns, absent)

Digits == <<"0", "1", "2", "3", "4", "5", "6", "7", "8", "9">>

is_digit(c) == \E i \in 1..Len(Digits) : Digits[i] = c

digit_value(c) == (CHOOSE i \in 1..Len(Digits) : Digits[i] = c) - 1

RECURSIVE number_from(_, _, _)
number_from(text, i, acc) ==
  IF i > Len(text) THEN acc
  ELSE number_from(text, i + 1, 10 * acc + digit_value(text[i]))

(* A float or datetime cell: a value, or NaN / NaT. *)
Value(v) == [na |-> FALSE, value |-> v]

NotAValue == [na |-> TRUE, value |-> 0]

(* pd.to_numeric(cell, errors='coerce'): the number the text denotes, NaN  *)
(* for a cell that denotes none.  The amounts of the model are written as  *)
(* digit strings.                                                          *)
to_numeric(cell) ==
  IF /\ is_text(cell)
     /\ Len(cell) > 0
     /\ \A i \in 1..Len(cell) : is_digit(cell[i])
  THEN Value(number_from(cell, 1, 0))
  ELSE NotAValue

days_in_month(year, month) ==
  IF month = 2
  THEN (IF year % 4 = 0 /\ (year % 100 # 0 \/ year % 400 = 0) THEN 29 ELSE 28)
  ELSE IF month \in {4, 6, 9, 11} THEN 30 ELSE 31

(* pd.to_datetime(cell, errors='coerce') on a YYYY-MM-DD text: the day,    *)
(* as a number that orders as the dates do (2024-01-01 is day 1), NaT for  *)
(* a text that is no date.                                                 *)
to_datetime(cell) ==
  IF /\ is_text(cell)
     /\ Len(cell) = 10
     /\ cell[5] = "-"
     /\ cell[8] = "-"
     /\ \A i \in {1, 2, 3, 4, 6, 7, 9, 10} : is_digit(cell[i])
  THEN LET year == number_from(SubSeq(cell, 1, 4), 1, 0)
           month == number_from(SubSeq(cell, 6, 7), 1, 0)
           day == number_from(SubSeq(cell, 9, 10), 1, 0)
       IN IF month \in 1..12 /\ day \in 1..days_in_month(year, month)
          THEN Value(372 * (year - 2024) + 31 * (month - 1) + day)
          ELSE NotAValue
  ELSE NotAValue

(* The two conversions of each cell text of the pool, computed once. *)
numeric == [cell \in {row.valor : row \in RowPool} |-> to_numeric(cell)]

datetime == [cell \in {row.data : row \in RowPool} |-> to_datetime(cell)]

(* df['valor'] = pd.to_numeric(...); df['data'] = pd.to_datetime(...) *)
convert_types(rows) ==
  [i \in 1..Len(rows) |->
     [k \in DOMAIN rows[i] |->
        IF k = "valor" THEN numeric[rows[i][k]]
        ELSE IF k = "data" THEN datetime[rows[i][k]]
        ELSE rows[i][k]]]

(* Mutant: the rows with a missing amount or date stay in the table. *)
keepna(rows) == rows

(* df.dropna(subset=['valor', 'data']) *)
dropna(rows) ==
  LET complete(row) == ~row.valor.na /\ ~row.data.na
  IN SelectSeq(rows, complete)

(* The rows as the evaluators read them: row['valor'] and row['data'] are  *)
(* the values of their cells.                                              *)
cell_values(rows) ==
  [i \in 1..Len(rows) |->
     [rows[i] EXCEPT !.valor = @.value, !.data = @.value]]

(* load_transactions past the check of the columns. *)
load_transactions(file) == cell_values(dropna(convert_types(file.rows)))

(* The table without its optional categoria column. *)
drop_categoria(d) ==
  [i \in 1..Len(d) |-> [k \in (DOMAIN d[i]) \ {"categoria"} |-> d[i][k]]]

-----------------------------------------------------------------------------
(* The texts of the description column, and for each of them the values   *)
(* the evaluators derive from it, computed once: its lower-cased form and  *)
(* set(description.lower().split()).                                       *)
Descriptions == {row.descricao : row \in RowPool} \ {NaN}

lowered == [desc \in Descriptions |-> lower(desc)]

word_set == [desc \in Descriptions |-> to_set(split(lower(desc)))]

-----------------------------------------------------------------------------
(* The rule evaluators.  The texts a violation record is formatted into    *)
(* (reason, evidence, similaridade) are kept as the tuple of the values    *)
(* they are formatted from.                                                *)

(* Rule 1: prohibited items. *)

(* Mutant: the scan does not stop at the first hit, the last one stands. *)
last_match(list, text) ==
  IF \E k \in 1..Len(list) : contains(list[k], text)
  THEN CHOOSE k \in 1..Len(list) :
         /\ contains(list[k], text)
         /\ \A m \in (k + 1)..Len(list) : ~contains(list[m], text)
  ELSE 0

(* Index of the first entry of `list` found in `text`, 0 when none is:    *)
(* the inner for loop with its break.                                      *)
RECURSIVE first_match_from(_, _, _)
first_match_from(list, text, k) ==
  IF k > Len(list) THEN 0
  ELSE IF contains(list[k], text) THEN k
  ELSE first_match_from(list, text, k + 1)

first_match(list, text) == first_match_from(list, text, 1)

(* For each description, the index of the deny-listed keyword the loop     *)
(* stops at (0: none), computed once.                                      *)
prohibited_match ==
  [desc \in Descriptions |-> first_match(prohibited_keywords, lowered[desc])]

restricted_match ==
  [desc \in Descriptions |-> first_match(restricted_location_names, lowered[desc])]

prohibited_violation(row, keyword) ==
  [transaction |-> row,
   violation_type |-> "ITEM_PROIBIDO",
   severity |-> severity_prohibited,
   rule |-> "Seção 3 - Lista Negra de Itens",
   reason |-> <<"Compra de item proibido detectada", keyword>>,
   evidence |-> <<"Descrição", row.descricao>>]

RECURSIVE check_prohibited_from(_, _)
check_prohibited_from(d, i) ==
  IF i > Len(d) THEN <<>>
  ELSE LET k == prohibited_match[d[i].descricao]
       IN (IF k # 0 THEN <<prohibited_violation(d[i], prohibited_keywords[k])>>
           ELSE <<>>) \o check_prohibited_from(d, i + 1)

check_prohibited_items(d) == check_prohibited_from(d, 1)

(* Rule 2: amounts above the approval threshold without a purchase order. *)

has_approval_marker(description_lower) ==
  \E k \in 1..Len(approval_markers) :
     contains(approval_markers[k], description_lower)

unauthorized_violation(row) ==
  [transaction |-> row,
   violation_type |-> "VALOR_NAO_AUTORIZADO",
   severity |-> severity_unauthorized,
   rule |-> "Seção 1.3 - Grandes Despesas",
   reason |-> <<"Valor acima sem evidência de Purchase Order",
                high_value_threshold>>,
   evidence |-> <<"Valor", row.valor>>]

(* Mutant: an amount on the threshold needs a purchase order too. *)
is_unauthorized_from_threshold(row) ==
  /\ row.valor >= high_value_threshold
  /\ ~has_approval_marker(lowered[row.descricao])

is_unauthorized(row) ==
  /\ row.valor > high_value_threshold
  /\ ~has_approval_marker(lowered[row.descricao])

RECURSIVE check_unauthorized_from(_, _)
check_unauthorized_from(d, i) ==
  IF i > Len(d) THEN <<>>
  ELSE (IF is_unauthorized(d[i]) THEN <<unauthorized_violation(d[i])>>
        ELSE <<>>) \o check_unauthorized_from(d, i + 1)

check_unauthorized_amounts(d) == check_unauthorized_from(d, 1)

(* Rule 4: restricted locations. *)

restricted_violation(row, location) ==
  [transaction |-> row,
   violation_type |-> "LOCAL_RESTRITO",
   severity |-> severity_restricted,
   rule |-> "Seção 2.1 - Locais Restritos",
   reason |-> <<"Refeição em local restrito", location>>,
   evidence |-> <<"Descrição", row.descricao>>]

RECURSIVE check_restricted_from(_, _)
check_restricted_from(d, i) ==
  IF i > Len(d) THEN <<>>
  ELSE LET k == restricted_match[d[i].descricao]
       IN (IF k # 0
           THEN <<restricted_violation(d[i], restricted_location_names[k])>>
           ELSE <<>>) \o check_restricted_from(d, i + 1)

check_restricted_locations(d) == check_restricted_from(d, 1)

(* Rule 5: suspicious categories. *)

suspicious_category == <<"S", "e", "g", "u", "r", "a", "n", "ç", "a">>

suspicious_violation(row) ==
  [transaction |-> row,
   violation_type |-> "CATEGORIA_SUSPEITA",
   severity |-> severity_suspicious,
   rule |-> "Seção 3.2 - Armamento e Defesa",
   reason |-> "Despesa categorizada como Segurança (possível armamento)",
   evidence |-> <<"Descrição", row.descricao, "Valor", row.valor>>]

(* Mutant: the English spelling is suspicious too. *)
is_suspicious_category_either(row) ==
  \/ row.categoria = suspicious_category
  \/ row.categoria = <<"S", "e", "c", "u", "r", "i", "t", "y">>

is_suspicious_category(row) == row.categoria = suspicious_category

RECURSIVE check_suspicious_from(_, _)
check_suspicious_from(d, i) ==
  IF i > Len(d) THEN <<>>
  ELSE (IF is_suspicious_category(d[i]) THEN <<suspicious_violation(d[i])>>
        ELSE <<>>) \o check_suspicious_from(d, i + 1)

check_suspicious_categories(d, categoria_in_columns) ==
  IF categoria_in_columns THEN check_suspicious_from(d, 1) ELSE <<>>

-----------------------------------------------------------------------------
(* Rule 3: smurfing (structuring). *)

(* The order of the description column: a missing cell goes last. *)
descricao_less(a, b) == is_text(a) /\ (~is_text(b) \/ str_less(a, b))

(* The sort key of df.sort_values(['funcionario', 'data', 'descricao']). *)
row_less(a, b) ==
  \/ str_less(a.funcionario, b.funcionario)
  \/ /\ a.funcionario = b.funcionario
     /\ \/ a.data < b.data
        \/ /\ a.data = b.data
           /\ descricao_less(a.descricao, b.descricao)

(* Stable sort: a row goes after every row already placed that is not      *)
(* greater than it.                                                        *)
insert_sorted(sorted, row) ==
  LET n == Cardinality({k \in 1..Len(sorted) : ~row_less(row, sorted[k])})
  IN SubSeq(sorted, 1, n) \o <<row>> \o SubSeq(sorted, n + 1, Len(sorted))

RECURSIVE sort_from(_, _, _)
sort_from(d, i, sorted) ==
  IF i > Len(d) THEN sorted
  ELSE sort_from(d, i + 1, insert_sorted(sorted, d[i]))

sort_values(d) == sort_from(d, 1, <<>>)

(* Series.unique(): the distinct values in order of first appearance. *)
RECURSIVE unique_from(_, _, _)
unique_from(seq, i, seen) ==
  IF i > Len(seq) THEN seen
  ELSE unique_from(seq, i + 1,
                   IF seq[i] \in to_set(seen) THEN seen ELSE Append(seen, seq[i]))

unique(seq) == unique_from(seq, 1, <<>>)

column(d, name) == [i \in 1..Len(d) |-> d[i][name]]

rows_of_funcionario(d, funcionario) ==
  LET same(row) == row.funcionario = funcionario IN SelectSeq(d, same)

rows_of_data(d, data) ==
  LET same(row) == row.data = data IN SelectSeq(d, same)

(* The pairs <<i, j>>, i < j <= n, in the order of the two nested loops. *)
RECURSIVE index_pairs_from(_, _, _)
index_pairs_from(n, i, j) ==
  IF i >= n THEN <<>>
  ELSE IF j > n THEN index_pairs_from(n, i + 1, i + 2)
  ELSE <<<<i, j>>>> \o index_pairs_from(n, i, j + 1)

index_pairs(n) == index_pairs_from(n, 1, 2)

(* tuple(sorted([id1, id2])) *)
pair_key(id1, id2) == IF str_less(id2, id1) THEN <<id2, id1>> ELSE <<id1, id2>>

(* Mutant: a similarity of exactly 0.6 passes. *)
similarity_at_least(words1, words2) ==
  5 * Cardinality(words1 \cap words2) >= 3 * Cardinality(words1 \cup words2)

(* len(A & B) / len(A | B) > 0.6 on two non-empty word sets.  The quotient *)
(* of two small integers exceeds the double 0.6 exactly when it exceeds    *)
(* 3/5: 3/5 itself rounds to the double 0.6.                               *)
similarity_exceeds(words1, words2) ==
  5 * Cardinality(words1 \cap words2) > 3 * Cardinality(words1 \cup words2)

smurfing_violation(row1, row2, funcionario, data) ==
  LET words1 == word_set[row1.descricao]
      words2 == word_set[row2.descricao]
  IN [transaction |->
        [id_1 |-> row1.id_transacao,
         id_2 |-> row2.id_transacao,
         funcionario |-> funcionario,
         data |-> data,
         valor_total |-> row1.valor + row2.valor,
         valor_1 |-> row1.valor,
         valor_2 |-> row2.valor,
         descricao_1 |-> row1.descricao,
         descricao_2 |-> row2.descricao,
         similaridade |-> <<Cardinality(words1 \cap words2),
                            Cardinality(words1 \cup words2)>>],
      violation_type |-> "SMURFING",
      severity |-> severity_smurfing,
      rule |-> "Seção 1.3 - Proibição de Smurfing",
      reason |-> <<"Possível estruturação", row1.valor + row2.valor>>,
      evidence |-> <<"TX1", row1.id_transacao, row1.valor,
                     "TX2", row2.id_transacao, row2.valor>>]

(* Mutant: the amount range excludes its end points. *)
is_smurfing_pair_open_range(row1, row2) ==
  LET words1 == word_set[row1.descricao]
      words2 == word_set[row2.descricao]
  IN /\ words1 # {}
     /\ words2 # {}
     /\ similarity_exceeds(words1, words2)
     /\ smurfing_floor < row1.valor /\ row1.valor < smurfing_ceiling
     /\ smurfing_floor < row2.valor /\ row2.valor < smurfing_ceiling
     /\ row1.valor + row2.valor > high_value_threshold

(* The test of one pair of rows of a day: lines 175-187. *)
is_smurfing_pair(row1, row2) ==
  LET words1 == word_set[row1.descricao]
      words2 == word_set[row2.descricao]
  IN /\ words1 # {}
     /\ words2 # {}
     /\ similarity_exceeds(words1, words2)
     /\ smurfing_floor <= row1.valor /\ row1.valor <= smurfing_ceiling
     /\ smurfing_floor <= row2.valor /\ row2.valor <= smurfing_ceiling
     /\ row1.valor + row2.valor > high_value_threshold

(* Mutant: the set of reported pairs is never consulted. *)
never_detected(key, detected_pairs) == FALSE

(* Whether a pair key already reported makes the loop skip the pair. *)
already_detected(key, detected_pairs) == key \in detected_pairs

(* The inner two loops over one day's rows; acc is the triple              *)
(* <<violations, detected_pairs, raised>>.  .lower() on a description that *)
(* is no text raises, which ends every loop.                               *)
RECURSIVE scan_day(_, _, _, _, _, _)
scan_day(day, pairs, k, funcionario, data, acc) ==
  IF k > Len(pairs) \/ acc[3] THEN acc
  ELSE LET row1 == day[pairs[k][1]]
           row2 == day[pairs[k][2]]
           key == pair_key(row1.id_transacao, row2.id_transacao)
       IN IF already_detected(key, acc[2])
          THEN scan_day(day, pairs, k + 1, funcionario, data, acc)
          ELSE IF ~is_text(row1.descricao) \/ ~is_text(row2.descricao)
          THEN <<acc[1], acc[2], TRUE>>
          ELSE IF is_smurfing_pair(row1, row2)
          THEN scan_day(day, pairs, k + 1, funcionario, data,
                        <<Append(acc[1],
                                 smurfing_violation(row1, row2, funcionario, data)),
                          acc[2] \cup {key}, FALSE>>)
          ELSE scan_day(day, pairs, k + 1, funcionario, data, acc)

(* The loop over the days of one employee. *)
RECURSIVE scan_days(_, _, _, _, _)
scan_days(func_df, datas, k, funcionario, acc) ==
  IF k > Len(datas) THEN acc
  ELSE LET day == rows_of_data(func_df, datas[k])
       IN scan_days(func_df, datas, k + 1, funcionario,
                    scan_day(day, index_pairs(Len(day)), 1, funcionario,
                             datas[k], acc))

(* The loop over the employees, in order of first appearance in df. *)
RECURSIVE scan_funcionarios(_, _, _, _)
scan_funcionarios(df_sorted, funcionarios, k, acc) ==
  IF k > Len(funcionarios) THEN acc
  ELSE LET func_df == rows_of_funcionario(df_sorted, funcionarios[k])
       IN scan_funcionarios(df_sorted, funcionarios, k + 1,
                            scan_days(func_df, unique(column(func_df, "data")), 1,
                                      funcionarios[k], acc))

scan_pairs(d) ==
  scan_funcionarios(sort_values(d), unique(column(d, "funcionario")), 1,
                    <<<<>>, {}, FALSE>>)

check_smurfing(d) == scan_pairs(d)[1]

-----------------------------------------------------------------------------
(* Deduplication: one violation per key, the most severe one. *)

(* tx.get('id_transacao', tx.get('id_1', str(hash(str(tx))))) *)
tx_key(tx) ==
  IF "id_transacao" \in DOMAIN tx THEN tx.id_transacao
  ELSE IF "id_1" \in DOMAIN tx THEN tx.id_1
  ELSE <<"hash", tx>>

(* fraud_dict is a dict, which keeps its keys in insertion order: a        *)
(* sequence of entries [key, fraud].                                       *)
dict_has(fraud_dict, key) == \E p \in 1..Len(fraud_dict) : fraud_dict[p].key = key

dict_get(fraud_dict, key) ==
  fraud_dict[CHOOSE p \in 1..Len(fraud_dict) : fraud_dict[p].key = key].fraud

dict_set(fraud_dict, key, fraud) ==
  IF dict_has(fraud_dict, key)
  THEN [p \in 1..Len(fraud_dict) |->
          IF fraud_dict[p].key = key THEN [key |-> key, fraud |-> fraud]
          ELSE fraud_dict[p]]
  ELSE Append(fraud_dict, [key |-> key, fraud |-> fraud])

(* Mutant: a violation of equal severity takes the slot too. *)
replaces_on_tie(fraud, fraud_dict, key) ==
  \/ ~dict_has(fraud_dict, key)
  \/ fraud.severity >= dict_get(fraud_dict, key).severity

(* The condition under which a violation takes the slot of its key. *)
replaces(fraud, fraud_dict, key) ==
  \/ ~dict_has(fraud_dict, key)
  \/ fraud.severity > dict_get(fraud_dict, key).severity

RECURSIVE deduplicate_from(_, _, _)
deduplicate_from(frauds, i, fraud_dict) ==
  IF i > Len(frauds) THEN fraud_dict
  ELSE LET key == tx_key(frauds[i].transaction)
       IN deduplicate_from(frauds, i + 1,
                           IF replaces(frauds[i], fraud_dict, key)
                           THEN dict_set(fraud_dict, key, frauds[i])
                           ELSE fraud_dict)

deduplicate_frauds(frauds) ==
  LET fraud_dict == deduplicate_from(frauds, 1, <<>>)
  IN [p \in 1..Len(fraud_dict) |-> fraud_dict[p].fraud]

-----------------------------------------------------------------------------
(* The report: its status, statistics, counts per type and top list are    *)
(* the parts the text is formatted from.                                   *)

high_severity_threshold == 8

top_n == 10

(* sorted(frauds, key=lambda x: -x['severity']): stable. *)
insert_by_severity(sorted, fraud) ==
  LET n == Cardinality({k \in 1..Len(sorted) :
                          sorted[k].severity >= fraud.severity})
  IN SubSeq(sorted, 1, n) \o <<fraud>> \o SubSeq(sorted, n + 1, Len(sorted))

RECURSIVE sort_by_severity_from(_, _, _)
sort_by_severity_from(frauds, i, sorted) ==
  IF i > Len(frauds) THEN sorted
  ELSE sort_by_severity_from(frauds, i + 1, insert_by_severity(sorted, frauds[i]))

(* Mutant: the violations are listed in the order they come in. *)
unsorted(frauds) == frauds

sort_by_severity(frauds) == sort_by_severity_from(frauds, 1, <<>>)

count_of_type(frauds, vtype) ==
  Cardinality({k \in 1..Len(frauds) : frauds[k].violation_type = vtype})

(* sorted(by_type.items(), key=lambda x: -len(x[1])): stable over the      *)
(* order in which the types first appear.                                  *)
insert_by_count(sorted, item) ==
  LET n == Cardinality({k \in 1..Len(sorted) : sorted[k][2] >= item[2]})
  IN SubSeq(sorted, 1, n) \o <<item>> \o SubSeq(sorted, n + 1, Len(sorted))

RECURSIVE sort_by_count_from(_, _, _)
sort_by_count_from(items, i, sorted) ==
  IF i > Len(items) THEN sorted
  ELSE sort_by_count_from(items, i + 1, insert_by_count(sorted, items[i]))

by_type(frauds) ==
  LET vtypes == unique(column(frauds, "violation_type"))
      items == [k \in 1..Len(vtypes) |->
                  <<vtypes[k], count_of_type(frauds, vtypes[k])>>]
  IN sort_by_count_from(items, 1, <<>>)

(* Mutant: the list of violations is never taken for empty. *)
never_empty(frauds) == FALSE

(* not frauds *)
no_frauds(frauds) == frauds = <<>>

generate_report(frauds, total) ==
  IF no_frauds(frauds)
  THEN [status |-> "NENHUMA VIOLAÇÃO DETECTADA"]
  ELSE LET sorted_frauds == sort_by_severity(frauds)
           high_severity ==
             LET high(f) == f.severity >= high_severity_threshold
             IN SelectSeq(frauds, high)
       IN [status |-> "VIOLAÇÕES DETECTADAS",
           total |-> total,
           found |-> Len(frauds),
           high_severity |-> Len(high_severity),
           by_type |-> by_type(frauds),
           top |-> SubSeq(sorted_frauds, 1,
                          IF Len(sorted_frauds) < top_n THEN Len(sorted_frauds)
                          ELSE top_n)]

-----------------------------------------------------------------------------
(* The values of Python that a response of the language model is parsed    *)
(* into: None, booleans (which are numbers), numbers, strings, lists and   *)
(* dictionaries with string keys.                                          *)

NoFields == [key \in {} |-> 0]

PyNone == [type |-> "NoneType", num |-> 0, text |-> <<>>, items |-> <<>>,
           fields |-> NoFields]

PyBool(b) == [type |-> "bool", num |-> IF b THEN 1 ELSE 0, text |-> <<>>,
              items |-> <<>>, fields |-> NoFields]

PyInt(n) == [type |-> "int", num |-> n, text |-> <<>>, items |-> <<>>,
             fields |-> NoFields]

PyStr(s) == [type |-> "str", num |-> 0, text |-> s, items |-> <<>>,
             fields |-> NoFields]

PyList(values) == [type |-> "list", num |-> 0, text |-> <<>>, items |-> values,
                   fields |-> NoFields]

PyDict(entries) == [type |-> "dict", num |-> 0, text |-> <<>>, items |-> <<>>,
                    fields |-> entries]

(* The dictionary of a set of <<key, value>> pairs with distinct keys. *)
dict_of(pairs) ==
  PyDict([key \in {pair[1] : pair \in pairs} |->
            (CHOOSE pair \in pairs : pair[1] = key)[2]])

(* bool(value) *)
truthy(value) ==
  CASE value.type = "NoneType" -> FALSE
    [] value.type \in {"bool", "int"} -> value.num # 0
    [] value.type = "str" -> value.text # <<>>
    [] value.type = "list" -> value.items # <<>>
    [] value.type = "dict" -> DOMAIN value.fields # {}

(* Whether value >= n, value < n or -value is defined; it raises           *)
(* TypeError on a value that is no number.                                 *)
is_number(value) == value.type \in {"bool", "int"}

(* Whether value[:n] is defined; it raises TypeError otherwise. *)
is_sliceable(value) == value.type \in {"str", "list"}

(* dict.get(key, default) *)
get(dict, key, default) ==
  IF key \in DOMAIN dict.fields THEN dict.fields[key] ELSE default

text_is_suspicious ==
  <<"i", "s", "_", "s", "u", "s", "p", "i", "c", "i", "o", "u", "s">>

text_severity == <<"s", "e", "v", "e", "r", "i", "t", "y">>

text_reasoning == <<"r", "e", "a", "s", "o", "n", "i", "n", "g">>

(* The characters of the key names that are looked up with `in`. *)
spelled ==
  [key \in {"is_suspicious", "severity", "reasoning"} |->
     CASE key = "is_suspicious" -> text_is_suspicious
       [] key = "severity" -> text_severity
       [] key = "reasoning" -> text_reasoning]

(* Whether `key in value` raises TypeError: the value is not iterable. *)
in_raises(value) == value.type \in {"NoneType", "bool", "int"}

(* key in value: a key of a dictionary, an item of a list, a substring of  *)
(* a string.                                                               *)
in_value(key, value) ==
  CASE value.type = "dict" -> key \in DOMAIN value.fields
    [] value.type = "list" ->
         \E i \in 1..Len(value.items) : value.items[i] = PyStr(spelled[key])
    [] value.type = "str" -> contains(spelled[key], value.text)

-----------------------------------------------------------------------------
(* The responses of the language model.  LLMAdapter.generate raises, or    *)
(* returns None (a completion without content), or returns a text.  A text *)
(* is kept as what it reads as: whether it is JSON and of which value, and *)
(* whether it is wrapped in a markdown fence, on lines of its own          *)
(* ("block") or on the line of the text ("inline").                        *)

NoResponse == [kind |-> "nothing", fence |-> "", json |-> FALSE, value |-> PyNone]

Raises == [kind |-> "raises", fence |-> "", json |-> FALSE, value |-> PyNone]

NoContent == [kind |-> "none", fence |-> "", json |-> FALSE, value |-> PyNone]

NotJson == [kind |-> "text", fence |-> "", json |-> FALSE, value |-> PyNone]

Json(value) == [kind |-> "text", fence |-> "", json |-> TRUE, value |-> value]

Fenced(fence, value) ==
  [kind |-> "text", fence |-> fence, json |-> TRUE, value |-> value]

(* The four places that call the model, and the keys each asks for. *)
CallSites == {"conspiracy", "coordination", "justification", "hiding"}

flag_key ==
  [site \in CallSites |->
     CASE site = "conspiracy" -> "is_suspicious"
       [] site = "coordination" -> "is_fraud"
       [] site = "justification" -> "is_false"
       [] site = "hiding" -> "is_hiding"]

reason_key ==
  [site \in CallSites |-> IF site = "conspiracy" THEN "reasoning" ELSE "reason"]

evidence_key ==
  [site \in CallSites |->
     IF site = "conspiracy" THEN "evidence_quotes" ELSE "evidence"]

KeyNamesText ==
  <<"i", "s", "_", "s", "u", "s", "p", "i", "c", "i", "o", "u", "s", " ",
    "s", "e", "v", "e", "r", "i", "t", "y", " ", "r", "e", "a", "s", "o",
    "n", "i", "n", "g">>

Explanation == <<"h", "o", "s", "t", "i", "l", "e">>

Quote == <<"h", "e", " ", "s", "a", "i", "d">>

High == <<"h", "i", "g", "h">>

(* Evidence of the kind a call site asks for: a list of quotes, a quote. *)
evidence_for(site) ==
  IF site = "conspiracy" THEN PyList(<<PyStr(Quote)>>) ELSE PyStr(Quote)

(* A judgment: the dictionary with the given flag, severity, reason and    *)
(* evidence under the keys of the call site.                               *)
judgment(site, flag, severity, reason, evidence) ==
  dict_of({<<flag_key[site], flag>>, <<"severity", severity>>,
           <<reason_key[site], reason>>, <<evidence_key[site], evidence>>})

(* The responses a call may get: no response at all, text that is no       *)
(* JSON, JSON that is no object (null, a number, a string, a list), and    *)
(* objects: complete ones that flag with a high or a medium severity or do *)
(* not flag, one that holds only the flag, one that lacks only the flag,   *)
(* one whose severity is a word, one whose evidence is a number, one whose *)
(* severity is off the scale; and the complete flagging object inside a    *)
(* fence.                                                                  *)
Responses(site) ==
  LET flagged == judgment(site, PyBool(TRUE), PyInt(9), PyStr(Explanation),
                          evidence_for(site))
  IN { Raises,
       NoContent,
       NotJson,
       Json(PyNone),
       Json(PyInt(5)),
       Json(PyStr(KeyNamesText)),
       Json(PyList(<<PyStr(text_is_suspicious), PyStr(text_severity),
                     PyStr(text_reasoning)>>)),
       Json(flagged),
       Json(judgment(site, PyBool(TRUE), PyInt(5), PyStr(Explanation),
                     evidence_for(site))),
       Json(judgment(site, PyBool(FALSE), PyInt(2), PyStr(Explanation),
                     evidence_for(site))),
       Json(dict_of({<<flag_key[site], PyBool(TRUE)>>})),
       Json(dict_of({<<"severity", PyInt(9)>>,
                     <<reason_key[site], PyStr(Explanation)>>,
                     <<evidence_key[site], evidence_for(site)>>})),
       Json(judgment(site, PyBool(TRUE), PyStr(High), PyStr(Explanation),
                     evidence_for(site))),
       Json(judgment(site, PyBool(TRUE), PyInt(9), PyStr(Explanation),
                     PyInt(42))),
       Json(judgment(site, PyBool(TRUE), PyInt(15), PyStr(Explanation),
                     evidence_for(site))),
       Fenced("block", flagged),
       Fenced("inline", flagged) }

-----------------------------------------------------------------------------
(* The emails, as load_emails returns them. *)

michael_scott ==
  <<"m", "i", "c", "h", "a", "e", "l", ".", "s", "c", "o", "t", "t", "@",
    "d", "u", "n", "d", "e", "r", "m", "i", "f", "f", "l", "i", "n", ".",
    "c", "o", "m">>

MichaelScott ==
  <<"M", "i", "c", "h", "a", "e", "l", ".", "S", "c", "o", "t", "t", "@",
    "d", "u", "n", "d", "e", "r", "m", "i", "f", "f", "l", "i", "n", ".",
    "c", "o", "m">>

DwightSchrute ==
  <<"d", "w", "i", "g", "h", "t", ".", "s", "c", "h", "r", "u", "t", "e",
    "@", "d", "u", "n", "d", "e", "r", "m", "i", "f", "f", "l", "i", "n",
    ".", "c", "o", "m">>

JimHalpert ==
  <<"j", "i", "m", ".", "h", "a", "l", "p", "e", "r", "t", "@", "d", "u",
    "n", "d", "e", "r", "m", "i", "f", "f", "l", "i", "n", ".", "c", "o",
    "m">>

PamBeesly ==
  <<"p", "a", "m", ".", "b", "e", "e", "s", "l", "y", "@", "d", "u", "n",
    "d", "e", "r", "m", "i", "f", "f", "l", "i", "n", ".", "c", "o", "m">>

toby == <<"t", "o", "b", "y">>

flenderson == <<"f", "l", "e", "n", "d", "e", "r", "s", "o", "n">>

Budget == <<"B", "u", "d", "g", "e", "t">>

Lunch == <<"L", "u", "n", "c", "h">>

TobyAgain == <<"T", "o", "b", "y", " ", "a", "g", "a", "i", "n">>

SplitThePurchase ==
  <<"S", "p", "l", "i", "t", " ", "t", "h", "e", " ", "p", "u", "r", "c",
    "h", "a", "s", "e">>

ClientMeetingSecret ==
  <<"C", "l", "i", "e", "n", "t", " ", "m", "e", "e", "t", "i", "n", "g",
    ",", " ", "k", "e", "e", "p", " ", "i", "t", " ", "s", "e", "c", "r",
    "e", "t">>

SeeYouAtNoon ==
  <<"S", "e", "e", " ", "y", "o", "u", " ", "a", "t", " ", "n", "o", "o",
    "n">>

Email(sender, recipient, subject, message) ==
  [remetente |-> sender, destinatario |-> recipient, assunto |-> subject,
   data |-> Day1, mensagem |-> message, de |-> sender, para |-> recipient]

(* The emails a mailbox is drawn from: one from Michael Scott about        *)
(* splitting a purchase, one between others that justifies and hides, one  *)
(* between others whose subject names Toby.                                *)
EmailPool ==
  { Email(MichaelScott, DwightSchrute, Budget, SplitThePurchase),
    Email(JimHalpert, PamBeesly, Lunch, ClientMeetingSecret),
    Email(PamBeesly, JimHalpert, TobyAgain, SeeYouAtNoon) }

Mailboxes(max_emails) == UNION {[1..n -> EmailPool] : n \in 0..max_emails}

(* ConspiracyDetectionAgent._filter_relevant_emails, the test of one email. *)
is_relevant(email) ==
  \/ contains(michael_scott, lower(email.de))
  \/ contains(michael_scott, lower(email.para))
  \/ LET text_to_check == lower(email.assunto \o <<" ">> \o email.mensagem)
     IN contains(toby, text_to_check) \/ contains(flenderson, text_to_check)

suspicious_keywords ==
  << <<"c", "o", "m", "p", "r", "a">>,
     <<"p", "u", "r", "c", "h", "a", "s", "e">>,
     <<"a", "p", "r", "o", "v", "a", "ç", "ã", "o">>,
     <<"a", "p", "p", "r", "o", "v", "a", "l">>,
     <<"a", "u", "t", "o", "r", "i", "z", "a", "ç", "ã", "o">>,
     <<"a", "u", "t", "h", "o", "r", "i", "z", "a", "t", "i", "o", "n">>,
     <<"$">>,
     <<"v", "a", "l", "o", "r">>,
     <<"a", "m", "o", "u", "n", "t">>,
     <<"d", "e", "s", "p", "e", "s", "a">>,
     <<"e", "x", "p", "e", "n", "s", "e">>,
     <<"r", "e", "e", "m", "b", "o", "l", "s", "o">>,
     <<"r", "e", "i", "m", "b", "u", "r", "s", "e", "m", "e", "n", "t">>,
     <<"d", "i", "v", "i", "d", "i", "r">>,
     <<"s", "p", "l", "i", "t">>,
     <<"j", "u", "n", "t", "o", "s">>,
     <<"t", "o", "g", "e", "t", "h", "e", "r">>,
     <<"c", "o", "m", "b", "i", "n", "a", "r">>,
     <<"c", "o", "m", "b", "i", "n", "e">> >>

justification_keywords ==
  << <<"c", "l", "i", "e", "n", "t", "e">>,
     <<"c", "l", "i", "e", "n", "t">>,
     <<"r", "e", "u", "n", "i", "ã", "o">>,
     <<"m", "e", "e", "t", "i", "n", "g">>,
     <<"n", "e", "c", "e", "s", "s", "á", "r", "i", "o">>,
     <<"n", "e", "c", "e", "s", "s", "a", "r", "y">>,
     <<"e", "m", "e", "r", "g", "ê", "n", "c", "i", "a">>,
     <<"e", "m", "e", "r", "g", "e", "n", "c", "y">>,
     <<"u", "r", "g", "e", "n", "t", "e">>,
     <<"u", "r", "g", "e", "n", "t">>,
     <<"p", "r", "o", "j", "e", "t", "o">>,
     <<"p", "r", "o", "j", "e", "c", "t">> >>

hiding_keywords ==
  << <<"n", "ã", "o", " ", "m", "e", "n", "c", "i", "o", "n", "e">>,
     <<"d", "o", "n", "'", "t", " ", "m", "e", "n", "t", "i", "o", "n">>,
     <<"s", "e", "g", "r", "e", "d", "o">>,
     <<"s", "e", "c", "r", "e", "t">>,
     <<"c", "o", "n", "f", "i", "d", "e", "n", "c", "i", "a", "l">>,
     <<"c", "o", "n", "f", "i", "d", "e", "n", "t", "i", "a", "l">>,
     <<"e", "n", "t", "r", "e", " ", "n", "ó", "s">>,
     <<"b", "e", "t", "w", "e", "e", "n", " ", "u", "s">>,
     <<"s", "ó", " ", "v", "o", "c", "ê">>,
     <<"j", "u", "s", "t", " ", "y", "o", "u">>,
     <<"d", "i", "s", "c", "r", "e", "t", "o">>,
     <<"d", "i", "s", "c", "r", "e", "e", "t">> >>

(* any(keyword in mensagem_lower for keyword in keywords) *)
mentions_any(keywords, email) ==
  LET mensagem_lower == lower(email.mensagem)
  IN \E k \in 1..Len(keywords) : contains(keywords[k], mensagem_lower)

(* The tests of each email of the pool, computed once. *)
relevant == [email \in EmailPool |-> is_relevant(email)]

mentions ==
  [email \in EmailPool |->
     [coordination |-> mentions_any(suspicious_keywords, email),
      justification |-> mentions_any(justification_keywords, email),
      hiding |-> mentions_any(hiding_keywords, email)]]

filter_relevant_emails(mailbox) ==
  LET keep(email) == relevant[email] IN SelectSeq(mailbox, keep)

(* The emails a strategy of the contextual detector looks at; the first    *)
(* two strategies stop at 20.                                              *)
emails_limit == 20

head(list, n) == SubSeq(list, 1, IF Len(list) < n THEN Len(list) ELSE n)

suspicious_emails_of(mailbox) ==
  LET keep(email) == mentions[email].coordination
  IN head(SelectSeq(mailbox, keep), emails_limit)

justification_emails_of(mailbox) ==
  LET keep(email) == mentions[email].justification
  IN head(SelectSeq(mailbox, keep), emails_limit)

hiding_emails_of(mailbox) ==
  LET keep(email) == mentions[email].hiding IN SelectSeq(mailbox, keep)

-----------------------------------------------------------------------------
(* The reading of a response. *)

(* Whether json.loads gets JSON text after the cleaning of the response.   *)
(* The conspiracy agent drops the first and the last line of a text that   *)
(* starts with a fence, which leaves nothing of a one-line text; the       *)
(* contextual detector does so only for more than two lines and then       *)
(* deletes the fence marks.                                                *)
loads_json(site, reply) ==
  /\ reply.json
  /\ site = "conspiracy" => reply.fence # "inline"

(* ConspiracyDetectionAgent._analyze_single_email: the retry loop. *)
max_retries == 2

required_keys == <<"is_suspicious", "severity", "reasoning">>

fallback_reasoning ==
  <<"E", "r", "r", "o", " ", "a", "o", " ", "p", "r", "o", "c", "e", "s",
    "s", "a", "r", " ", "a", "n", "á", "l", "i", "s", "e", " ", "-", " ",
    "r", "e", "s", "p", "o", "s", "t", "a", " ", "i", "n", "v", "á", "l",
    "i", "d", "a", " ", "d", "o", " ", "L", "L", "M">>

fallback ==
  dict_of({<<"is_suspicious", PyBool(FALSE)>>,
           <<"severity", PyInt(0)>>,
           <<"reasoning", PyStr(fallback_reasoning)>>,
           <<"evidence_quotes", PyList(<<>>)>>})

(* Whether an attempt ends in one of the two except clauses: generate      *)
(* raised, None has no strip, the text is no JSON, or `in` raised.         *)
attempt_raises(reply) ==
  \/ reply.kind # "text"
  \/ ~loads_json("conspiracy", reply)
  \/ in_raises(reply.value)

(* all(key in analysis for key in required_keys) *)
has_required_keys(value) ==
  \A k \in 1..Len(required_keys) : in_value(required_keys[k], value)

(* The analysers of the contextual detector: the parsed response, None     *)
(* when generate or the parsing raised.                                    *)
analyze_response(site, reply) ==
  IF reply.kind = "text" /\ loads_json(site, reply) THEN reply.value ELSE PyNone

violation_type_of ==
  [site \in CallSites \ {"conspiracy"} |->
     CASE site = "coordination" -> "FRAUDE_COORDENADA"
       [] site = "justification" -> "JUSTIFICATIVA_FALSA"
       [] site = "hiding" -> "OCULTACAO_INFORMACAO"]

default_severity ==
  [site \in CallSites \ {"conspiracy"} |->
     CASE site = "coordination" -> 5
       [] site = "justification" -> 6
       [] site = "hiding" -> 8]

(* Whether the caller records the analysis: `analysis and                  *)
(* analysis.get(flag, False)`.  On a true value that is no dictionary .get *)
(* raises AttributeError, which the caller catches and goes on.            *)
is_recorded(site, value) ==
  /\ truthy(value)
  /\ value.type = "dict"
  /\ truthy(get(value, flag_key[site], PyBool(FALSE)))

fraud_record(site, email, value) ==
  [email |-> email,
   analysis |-> value,
   violation_type |-> violation_type_of[site],
   severity |-> get(value, "severity", PyInt(default_severity[site])),
   evidence |-> get(value, "evidence", PyStr(<<>>)),
   reason |-> get(value, "reason", PyStr(<<>>))]

(* ConspiracyDetectionAgent._generate_final_report *)
severity_high == 7

severity_medium == 4

top_high == 5

(* Whether the report raises: a severity that is compared is no number, or *)
(* the evidence quotes of a listed email cannot be sliced and joined.      *)
final_report_raises(suspicious) ==
  \/ \E k \in 1..Len(suspicious) :
        ~is_number(suspicious[k].analysis.fields["severity"])
  \/ LET high(e) == e.analysis.fields["severity"].num >= severity_high
         listed == head(SelectSeq(suspicious, high), top_high)
     IN \E k \in 1..Len(listed) :
           LET quotes == get(listed[k].analysis, "evidence_quotes", PyNone)
           IN /\ truthy(quotes)
              /\ \/ ~is_sliceable(quotes)
                 \/ /\ quotes.type = "list"
                    /\ \E i \in 1..Len(quotes.items) : quotes.items[i].type # "str"

generate_final_report(suspicious, total_emails) ==
  IF suspicious = <<>>
  THEN [status |-> "NENHUMA CONSPIRAÇÃO DETECTADA"]
  ELSE LET high(e) == e.analysis.fields["severity"].num >= severity_high
           medium(e) == /\ severity_medium <= e.analysis.fields["severity"].num
                        /\ e.analysis.fields["severity"].num < severity_high
           low(e) == e.analysis.fields["severity"].num < severity_medium
       IN [status |-> "CONSPIRAÇÃO DETECTADA",
           total |-> total_emails,
           found |-> Len(suspicious),
           high_severity |-> Len(SelectSeq(suspicious, high)),
           medium_severity |-> Len(SelectSeq(suspicious, medium)),
           low_severity |-> Len(SelectSeq(suspicious, low)),
           evidence |-> head(SelectSeq(suspicious, high), top_high)]

(* ContextualFraudDetector._generate_report *)

(* sorted(frauds, key=lambda x: -x['severity']), a stable sort. *)
insert_by_num(sorted, fraud) ==
  LET n == Cardinality({k \in 1..Len(sorted) :
                          sorted[k].severity.num >= fraud.severity.num})
  IN SubSeq(sorted, 1, n) \o <<fraud>> \o SubSeq(sorted, n + 1, Len(sorted))

RECURSIVE sort_by_num_from(_, _, _)
sort_by_num_from(found, i, sorted) ==
  IF i > Len(found) THEN sorted
  ELSE sort_by_num_from(found, i + 1, insert_by_num(sorted, found[i]))

(* Whether the report raises: a severity that is compared and negated is   *)
(* no number, or the evidence of a listed fraud cannot be sliced.          *)
contextual_report_raises(found) ==
  \/ \E k \in 1..Len(found) : ~is_number(found[k].severity)
  \/ LET listed == head(sort_by_num_from(found, 1, <<>>), top_n)
     IN \E k \in 1..Len(listed) : ~is_sliceable(listed[k].evidence)

generate_contextual_report(found, total_emails, total_transactions) ==
  IF found = <<>>
  THEN [status |-> "NENHUMA FRAUDE CONTEXTUAL DETECTADA",
        total_emails |-> total_emails,
        total_transactions |-> total_transactions]
  ELSE LET high(f) == f.severity.num >= high_severity_threshold
       IN [status |-> "FRAUDES CONTEXTUAIS DETECTADAS",
           total_emails |-> total_emails,
           total_transactions |-> total_transactions,
           found |-> Len(found),
           high_severity |-> Len(SelectSeq(found, high)),
           by_type |-> by_type(found),
           top |-> head(sort_by_num_from(found, 1, <<>>), top_n)]

-----------------------------------------------------------------------------
(* analyze_transactions, one step per statement of the pipeline. *)

None == <<"None">>

(* Mutant: the list of violations is carried over from the call before. *)
carried_list(carried) == carried

(* fraudulent_transactions = []: whatever an earlier call collected, the   *)
(* list starts empty.                                                      *)
empty_list(carried) == <<>>

(* Mutant: the new violations go in front of the collected ones. *)
extend_in_front(list, items) == items \o list

(* list.extend(items) *)
extend(list, items) == list \o items

(* Mutant: sort_values(..., inplace=True). *)
sorted_in_place(d) == sort_values(d)

(* df.sort_values(...) returns a new frame: the frame the caller holds is  *)
(* as it was.                                                              *)
after_sort_values(d) == d

(* The state before analyze_transactions is called on one of the files. *)
Start(files) ==
  /\ csv \in files
  /\ pc = "load"
  /\ df = <<>>
  /\ has_categoria = TRUE
  /\ prohibited_items = <<>>
  /\ unauthorized_amounts = <<>>
  /\ smurfing_cases = <<>>
  /\ restricted_locations = <<>>
  /\ suspicious_categories = <<>>
  /\ fraudulent_transactions = <<>>
  /\ unique_frauds = <<>>
  /\ result = None
  /\ previous = <<>>
  /\ returned = {}

(* Mutant: the report is worded by the language model. *)
generate_for_report(step) == IF step = "report" THEN 1 ELSE 0

(* The calls of self.llm.generate in a step of analyze_transactions: the   *)
(* detector holds an LLMAdapter and no step uses it.                       *)
generate_calls(step) == 0

(* No violations file has been written. *)
NoFile == [written |-> FALSE, columns |-> <<>>, rows |-> <<>>]

(* main is not running. *)
MenuIdle ==
  /\ menu = "none"
  /\ data_files = "present"
  /\ chosen = <<>>
  /\ log = <<>>
  /\ pending = <<>>

MainIdle ==
  /\ saved = NoFile
  /\ content = <<>>
  /\ MenuIdle

(* No detector that consults the language model is running. *)
SemanticIdle ==
  /\ agent = "none"
  /\ apc = "idle"
  /\ emails = <<>>
  /\ todo = <<>>
  /\ attempt = 0
  /\ calls = 0
  /\ response = NoResponse
  /\ analysis = PyNone
  /\ suspicious_emails = <<>>
  /\ contextual_frauds = <<>>
  /\ report = None

Init == Start(CsvFiles(MaxRows)) /\ SemanticIdle /\ MainIdle

(* df = load_transactions(...): a file that lacks a required column makes  *)
(* load_transactions raise before it converts a cell, and the exception    *)
(* leaves analyze_transactions at once; otherwise the rows whose amount    *)
(* and date parsed, with or without the optional categoria column, and     *)
(* the empty list of violations.                                           *)
LoadTransactions ==
  /\ pc = "load"
  /\ IF missing_columns(csv.columns) # <<>>
     THEN /\ pc' = "load_failed"
          /\ UNCHANGED <<df, has_categoria, fraudulent_transactions>>
     ELSE /\ df' = load_transactions(csv)
          /\ has_categoria' = ("categoria" \in csv.columns)
          /\ fraudulent_transactions' = empty_list(fraudulent_transactions)
          /\ pc' = "prohibited"
  /\ UNCHANGED <<csv, prohibited_items, unauthorized_amounts, smurfing_cases,
                 restricted_locations, suspicious_categories, unique_frauds,
                 result, previous, returned>>
  /\ calls' = calls + generate_calls(pc)
  /\ UNCHANGED <<semantic_but_calls, main_vars>>

(* row['descricao'].lower() raises on a cell that is no text; the first    *)
(* evaluator reads every row, so the later ones only see text.             *)
CheckProhibitedItems ==
  /\ pc = "prohibited"
  /\ IF \E i \in 1..Len(df) : ~is_text(df[i].descricao)
     THEN /\ pc' = "raised"
          /\ UNCHANGED <<prohibited_items, fraudulent_transactions>>
     ELSE /\ prohibited_items' = check_prohibited_items(df)
          /\ fraudulent_transactions' =
               extend(fraudulent_transactions, prohibited_items')
          /\ pc' = "unauthorized"
  /\ UNCHANGED <<csv, df, has_categoria, unauthorized_amounts, smurfing_cases,
                 restricted_locations, suspicious_categories, unique_frauds,
                 result, previous, returned>>
  /\ calls' = calls + generate_calls(pc)
  /\ UNCHANGED <<semantic_but_calls, main_vars>>

CheckUnauthorizedAmounts ==
  /\ pc = "unauthorized"
  /\ unauthorized_amounts' = check_unauthorized_amounts(df)
  /\ fraudulent_transactions' =
       extend(fraudulent_transactions, unauthorized_amounts')
  /\ pc' = "smurfing"
  /\ UNCHANGED <<csv, df, has_categoria, prohibited_items, smurfing_cases,
                 restricted_locations, suspicious_categories, unique_frauds,
                 result, previous, returned>>
  /\ calls' = calls + generate_calls(pc)
  /\ UNCHANGED <<semantic_but_calls, main_vars>>

CheckSmurfing ==
  /\ pc = "smurfing"
  /\ smurfing_cases' = check_smurfing(df)
  /\ df' = after_sort_values(df)
  /\ fraudulent_transactions' = extend(fraudulent_transactions, smurfing_cases')
  /\ pc' = "restricted"
  /\ UNCHANGED <<csv, has_categoria, prohibited_items, unauthorized_amounts,
                 restricted_locations, suspicious_categories, unique_frauds,
                 result, previous, returned>>
  /\ calls' = calls + generate_calls(pc)
  /\ UNCHANGED <<semantic_but_calls, main_vars>>

CheckRestrictedLocations ==
  /\ pc = "restricted"
  /\ restricted_locations' = check_restricted_locations(df)
  /\ fraudulent_transactions' =
       extend(fraudulent_transactions, restricted_locations')
  /\ pc' = "suspicious"
  /\ UNCHANGED <<csv, df, has_categoria, prohibited_items, unauthorized_amounts,
                 smurfing_cases, suspicious_categories, unique_frauds, result,
                 previous, returned>>
  /\ calls' = calls + generate_calls(pc)
  /\ UNCHANGED <<semantic_but_calls, main_vars>>

CheckSuspiciousCategories ==
  /\ pc = "suspicious"
  /\ suspicious_categories' = check_suspicious_categories(df, has_categoria)
  /\ fraudulent_transactions' =
       extend(fraudulent_transactions, suspicious_categories')
  /\ pc' = "dedup"
  /\ UNCHANGED <<csv, df, has_categoria, prohibited_items, unauthorized_amounts,
                 smurfing_cases, restricted_locations, unique_frauds, result,
                 previous, returned>>
  /\ calls' = calls + generate_calls(pc)
  /\ UNCHANGED <<semantic_but_calls, main_vars>>

DeduplicateFrauds ==
  /\ pc = "dedup"
  /\ unique_frauds' = deduplicate_frauds(fraudulent_transactions)
  /\ pc' = "report"
  /\ UNCHANGED <<csv, df, has_categoria, prohibited_items, unauthorized_amounts,
                 smurfing_cases, restricted_locations, suspicious_categories,
                 fraudulent_transactions, result, previous, returned>>
  /\ calls' = calls + generate_calls(pc)
  /\ UNCHANGED <<semantic_but_calls, main_vars>>

GenerateReport ==
  /\ pc = "report"
  /\ result' = [total_transactions |-> Len(df),
                fraudulent_transactions |-> unique_frauds,
                total_frauds |-> Len(unique_frauds),
                report |-> generate_report(unique_frauds, Len(df))]
  /\ pc' = "done"
  /\ UNCHANGED <<csv, df, has_categoria, prohibited_items, unauthorized_amounts,
                 smurfing_cases, restricted_locations, suspicious_categories,
                 fraudulent_transactions, unique_frauds, previous, returned>>
  /\ calls' = calls + generate_calls(pc)
  /\ UNCHANGED <<semantic_but_calls, main_vars>>

Next ==
  \/ LoadTransactions
  \/ CheckProhibitedItems
  \/ CheckUnauthorizedAmounts
  \/ CheckSmurfing
  \/ CheckRestrictedLocations
  \/ CheckSuspiciousCategories
  \/ DeduplicateFrauds
  \/ GenerateReport

Spec == Init /\ [][Next]_vars

-----------------------------------------------------------------------------
(* analyze_transactions called a second time on the same file, as the menu *)
(* of main allows: a new detector, the same steps.  What the first call    *)
(* collected and returned is kept aside for comparison.                    *)

(* Largest number of rows of a file that is analysed twice. *)
MaxRowsTwice == 2

InitTwice == Start(CsvFiles(MaxRowsTwice)) /\ SemanticIdle /\ MainIdle

AnalyzeAgain ==
  /\ pc = "done"
  /\ previous = <<>>
  /\ previous' = <<[result |-> result,
                    fraudulent_transactions |-> fraudulent_transactions]>>
  /\ pc' = "load"
  /\ UNCHANGED <<csv, df, has_categoria, prohibited_items, unauthorized_amounts,
                 smurfing_cases, restricted_locations, suspicious_categories,
                 fraudulent_transactions, unique_frauds, result, returned>>
  /\ UNCHANGED <<semantic_vars, main_vars>>

NextTwice == Next \/ AnalyzeAgain

SpecTwice == InitTwice /\ [][NextTwice]_vars

-----------------------------------------------------------------------------
(* analyze_transactions on long files, each line with an id of its own: a  *)
(* meal at a restricted location (severity 6), some of them booked under   *)
(* the suspicious category (severity 7), after a first line that may be a  *)
(* deny-listed item (severity 9).  The report then has more violations     *)
(* than it lists.                                                          *)

(* Largest number of lines of a long file after its first line. *)
MaxLines == 11

line_id(k) ==
  IF k < 10 THEN <<"T", Digits[k + 1]>>
  ELSE <<"T", Digits[(k \div 10) + 1], Digits[(k % 10) + 1]>>

FirstLines == {<<>>, <<Row(T1, Jim, Day1, <<"6", "0", "0">>, KatanaSword, Seguranca)>>}

LinePool ==
  { Row(T1, Jim, Day2, <<"6", "0", "0">>, HootersPO, Security),
    Row(T1, Jim, Day2, <<"6", "0", "0">>, HootersPO, Seguranca) }

LongFiles(max_lines) ==
  { read_csv(all_columns,
             [k \in 1..Len(first \o lines) |->
                [(first \o lines)[k] EXCEPT !.id_transacao = line_id(k)]]) :
      first \in FirstLines,
      lines \in UNION {[1..n -> LinePool] : n \in 0..max_lines} }

InitLong == Start(LongFiles(MaxLines)) /\ SemanticIdle /\ MainIdle

SpecLong == InitLong /\ [][Next]_vars

-----------------------------------------------------------------------------
(* The violations file fraudes_standalone.csv, which two callers of         *)
(* analyze_transactions write, each in its own way: run_standalone_fraud_  *)
(* detector of the menu program, and main of the detector's module when it *)
(* is run as a script.                                                     *)

(* Largest number of rows of a file whose violations are saved. *)
MaxRowsSaved == 2

(* str(n) for a natural number. *)
RECURSIVE str_of_int(_)
str_of_int(n) ==
  IF n < 10 THEN <<Digits[n + 1]>>
  ELSE str_of_int(n \div 10) \o <<Digits[(n % 10) + 1]>>

(* str(d) of a dictionary: the text of its repr, kept as the dictionary    *)
(* it spells out.                                                          *)
str_of_dict(d) == [repr |-> d]

(* f"{tx['id_1']} + {tx['id_2']}" *)
ids_joined(id_1, id_2) == id_1 \o <<" ", "+", " ">> \o id_2

(* f"{tx.get('descricao_1', '')} | {tx.get('descricao_2', '')}", str() of  *)
(* a cell that is no text being 'nan'.                                     *)
descriptions_joined(d1, d2) ==
  LET text(d) == IF is_text(d) THEN d ELSE <<"n", "a", "n">>
  IN text(d1) \o <<" ", "|", " ">> \o text(d2)

(* writer.writerow(fraudulent_transactions[0].keys()) *)
violation_keys ==
  <<"transaction", "violation_type", "severity", "rule", "reason", "evidence">>

(* writer.writerow(tx.values()): each value as str() writes it. *)
violation_values(fraud) ==
  [transaction |-> str_of_dict(fraud.transaction),
   violation_type |-> fraud.violation_type,
   severity |-> str_of_int(fraud.severity),
   rule |-> fraud.rule,
   reason |-> fraud.reason,
   evidence |-> fraud.evidence]

(* save_standalone_frauds_csv *)
save_standalone_frauds_csv(frauds) ==
  [written |-> TRUE,
   columns |-> IF frauds = <<>> THEN <<>> ELSE violation_keys,
   rows |-> [k \in 1..Len(frauds) |-> violation_values(frauds[k])]]

detail_columns ==
  <<"id_transacao", "funcionario", "data", "valor", "descricao",
    "violation_type", "severity", "rule", "reason">>

(* The row of fraud_details for a violation, as to_csv writes it; the date *)
(* and the amount are kept as the values they are written from.            *)
fraud_detail(fraud) ==
  LET tx == fraud.transaction
  IN IF "id_transacao" \in DOMAIN tx
     THEN [id_transacao |-> tx.id_transacao,
           funcionario |-> tx.funcionario,
           data |-> tx.data,
           valor |-> tx.valor,
           descricao |-> tx.descricao,
           violation_type |-> fraud.violation_type,
           severity |-> str_of_int(fraud.severity),
           rule |-> fraud.rule,
           reason |-> fraud.reason]
     ELSE [id_transacao |-> ids_joined(tx.id_1, tx.id_2),
           funcionario |-> tx.funcionario,
           data |-> tx.data,
           valor |-> tx.valor_total,
           descricao |-> descriptions_joined(tx.descricao_1, tx.descricao_2),
           violation_type |-> fraud.violation_type,
           severity |-> str_of_int(fraud.severity),
           rule |-> fraud.rule,
           reason |-> fraud.reason]

(* pd.DataFrame(fraud_details).to_csv(output_path, index=False) *)
fraud_details_to_csv(frauds) ==
  [written |-> TRUE,
   columns |-> detail_columns,
   rows |-> [k \in 1..Len(frauds) |-> fraud_detail(frauds[k])]]

InitSaved == Start(CsvFiles(MaxRowsSaved)) /\ SemanticIdle /\ MainIdle

(* run_standalone_fraud_detector after analyze_transactions has returned:  *)
(* the file is written only for a list that is not empty.                  *)
SaveStandaloneFraudsCsv ==
  /\ pc = "done"
  /\ saved' = IF result.fraudulent_transactions # <<>>
              THEN save_standalone_frauds_csv(result.fraudulent_transactions)
              ELSE saved
  /\ pc' = "finished"
  /\ UNCHANGED <<csv, df, has_categoria, prohibited_items, unauthorized_amounts,
                 smurfing_cases, restricted_locations, suspicious_categories,
                 fraudulent_transactions, unique_frauds, result, previous,
                 returned>>
  /\ UNCHANGED <<semantic_vars, main_but_saved>>

(* main of standalone_fraud_agent after analyze_transactions has returned. *)
SaveFraudDetails ==
  /\ pc = "done"
  /\ saved' = IF result.fraudulent_transactions # <<>>
              THEN fraud_details_to_csv(result.fraudulent_transactions)
              ELSE saved
  /\ pc' = "finished"
  /\ UNCHANGED <<csv, df, has_categoria, prohibited_items, unauthorized_amounts,
                 smurfing_cases, restricted_locations, suspicious_categories,
                 fraudulent_transactions, unique_frauds, result, previous,
                 returned>>
  /\ UNCHANGED <<semantic_vars, main_but_saved>>

NextSaved == Next \/ SaveStandaloneFraudsCsv \/ SaveFraudDetails

SpecSaved == InitSaved /\ [][NextSaved]_vars

-----------------------------------------------------------------------------
(* The five evaluators applied to one loaded table in any order, each      *)
(* once.  An evaluator that raises ends the run.                           *)

(* Largest number of rows of a file whose table is evaluated in any order. *)
MaxRowsAnyOrder == 2

prohibited_items_raises(d) == \E i \in 1..Len(d) : ~is_text(d[i].descricao)

unauthorized_amounts_raises(d) ==
  \E i \in 1..Len(d) :
     d[i].valor > high_value_threshold /\ ~is_text(d[i].descricao)

smurfing_raises(d) == scan_pairs(d)[3]

restricted_locations_raises(d) == \E i \in 1..Len(d) : ~is_text(d[i].descricao)

InitAnyOrder ==
  /\ csv \in {file \in CsvFiles(MaxRowsAnyOrder) :
                missing_columns(file.columns) = <<>>}
  /\ pc = "evaluators"
  /\ df = load_transactions(csv)
  /\ has_categoria = ("categoria" \in csv.columns)
  /\ prohibited_items = <<>>
  /\ unauthorized_amounts = <<>>
  /\ smurfing_cases = <<>>
  /\ restricted_locations = <<>>
  /\ suspicious_categories = <<>>
  /\ fraudulent_transactions = <<>>
  /\ unique_frauds = <<>>
  /\ result = None
  /\ previous = <<>>
  /\ returned = {}
  /\ SemanticIdle
  /\ MainIdle

ApplyProhibitedItems ==
  /\ pc = "evaluators"
  /\ "prohibited_items" \notin returned
  /\ IF prohibited_items_raises(df)
     THEN pc' = "raised" /\ UNCHANGED <<prohibited_items, returned>>
     ELSE /\ prohibited_items' = check_prohibited_items(df)
          /\ returned' = returned \cup {"prohibited_items"}
          /\ UNCHANGED pc
  /\ UNCHANGED <<csv, df, has_categoria, unauthorized_amounts, smurfing_cases,
                 restricted_locations, suspicious_categories,
                 fraudulent_transactions, unique_frauds, result, previous>>
  /\ UNCHANGED <<semantic_vars, main_vars>>

ApplyUnauthorizedAmounts ==
  /\ pc = "evaluators"
  /\ "unauthorized_amounts" \notin returned
  /\ IF unauthorized_amounts_raises(df)
     THEN pc' = "raised" /\ UNCHANGED <<unauthorized_amounts, returned>>
     ELSE /\ unauthorized_amounts' = check_unauthorized_amounts(df)
          /\ returned' = returned \cup {"unauthorized_amounts"}
          /\ UNCHANGED pc
  /\ UNCHANGED <<csv, df, has_categoria, prohibited_items, smurfing_cases,
                 restricted_locations, suspicious_categories,
                 fraudulent_transactions, unique_frauds, result, previous>>
  /\ UNCHANGED <<semantic_vars, main_vars>>

ApplySmurfing ==
  /\ pc = "evaluators"
  /\ "smurfing_cases" \notin returned
  /\ df' = after_sort_values(df)
  /\ IF smurfing_raises(df)
     THEN pc' = "raised" /\ UNCHANGED <<smurfing_cases, returned>>
     ELSE /\ smurfing_cases' = check_smurfing(df)
          /\ returned' = returned \cup {"smurfing_cases"}
          /\ UNCHANGED pc
  /\ UNCHANGED <<csv, has_categoria, prohibited_items, unauthorized_amounts,
                 restricted_locations, suspicious_categories,
                 fraudulent_transactions, unique_frauds, result, previous>>
  /\ UNCHANGED <<semantic_vars, main_vars>>

ApplyRestrictedLocations ==
  /\ pc = "evaluators"
  /\ "restricted_locations" \notin returned
  /\ IF restricted_locations_raises(df)
     THEN pc' = "raised" /\ UNCHANGED <<restricted_locations, returned>>
     ELSE /\ restricted_locations' = check_restricted_locations(df)
          /\ returned' = returned \cup {"restricted_locations"}
          /\ UNCHANGED pc
  /\ UNCHANGED <<csv, df, has_categoria, prohibited_items, unauthorized_amounts,
                 smurfing_cases, suspicious_categories,
                 fraudulent_transactions, unique_frauds, result, previous>>
  /\ UNCHANGED <<semantic_vars, main_vars>>

ApplySuspiciousCategories ==
  /\ pc = "evaluators"
  /\ "suspicious_categories" \notin returned
  /\ suspicious_categories' = check_suspicious_categories(df, has_categoria)
  /\ returned' = returned \cup {"suspicious_categories"}
  /\ UNCHANGED <<csv, pc, df, has_categoria, prohibited_items,
                 unauthorized_amounts, smurfing_cases, restricted_locations,
                 fraudulent_transactions, unique_frauds, result, previous>>
  /\ UNCHANGED <<semantic_vars, main_vars>>

NextAnyOrder ==
  \/ ApplyProhibitedItems
  \/ ApplyUnauthorizedAmounts
  \/ ApplySmurfing
  \/ ApplyRestrictedLocations
  \/ ApplySuspiciousCategories

SpecAnyOrder == InitAnyOrder /\ [][NextAnyOrder]_vars

-----------------------------------------------------------------------------
(* The two detectors that consult the language model, one of them running  *)
(* over a mailbox.  The transactions enter only the prompt of the          *)
(* contextual detector and the count in its report.                        *)

(* Largest number of emails of a mailbox. *)
MaxEmails == 2

InitSemantic ==
  /\ csv = read_csv(all_columns, <<>>)
  /\ pc = "idle"
  /\ df = <<>>
  /\ has_categoria = TRUE
  /\ prohibited_items = <<>>
  /\ unauthorized_amounts = <<>>
  /\ smurfing_cases = <<>>
  /\ restricted_locations = <<>>
  /\ suspicious_categories = <<>>
  /\ fraudulent_transactions = <<>>
  /\ unique_frauds = <<>>
  /\ result = None
  /\ previous = <<>>
  /\ returned = {}
  /\ agent \in {"conspiracy", "contextual"}
  /\ apc = "load"
  /\ emails \in Mailboxes(MaxEmails)
  /\ todo = <<>>
  /\ attempt = 0
  /\ calls = 0
  /\ response = NoResponse
  /\ analysis = PyNone
  /\ suspicious_emails = <<>>
  /\ contextual_frauds = <<>>
  /\ report = None
  /\ MainIdle

(* analyze_emails up to its loop. *)
FilterRelevantEmails ==
  /\ agent = "conspiracy"
  /\ apc = "load"
  /\ todo' = filter_relevant_emails(emails)
  /\ suspicious_emails' = <<>>
  /\ apc' = IF todo' = <<>> THEN "report" ELSE "analyze"
  /\ UNCHANGED <<agent, emails, attempt, calls, response, analysis, contextual_frauds,
                 report>>
  /\ UNCHANGED <<standalone_vars, main_vars>>

(* One attempt of _analyze_single_email on the email at hand: the call of  *)
(* the model, the cleaning, the parsing and the check of the keys.  An     *)
(* exception or a missing key leads to the next attempt, and after the     *)
(* last one to the fallback.                                               *)
AnalyzeSingleEmail ==
  /\ agent = "conspiracy"
  /\ apc = "analyze"
  /\ \E reply \in Responses("conspiracy") :
        /\ response' = reply
        /\ calls' = calls + 1
        /\ IF ~attempt_raises(reply) /\ has_required_keys(reply.value)
           THEN /\ analysis' = reply.value
                /\ apc' = "record"
                /\ UNCHANGED attempt
           ELSE IF attempt + 1 < max_retries
           THEN /\ attempt' = attempt + 1
                /\ UNCHANGED <<analysis, apc>>
           ELSE /\ analysis' = fallback
                /\ apc' = "record"
                /\ UNCHANGED attempt
  /\ UNCHANGED <<agent, emails, todo, suspicious_emails, contextual_frauds, report>>
  /\ UNCHANGED <<standalone_vars, main_vars>>

(* if analysis['is_suspicious']: suspicious_emails.append(...).  The       *)
(* subscript raises TypeError on a list or a string, which leaves          *)
(* analyze_emails.                                                         *)
RecordAnalysis ==
  /\ agent = "conspiracy"
  /\ apc = "record"
  /\ IF analysis.type # "dict"
     THEN /\ apc' = "raised"
          /\ UNCHANGED <<todo, attempt, calls, suspicious_emails>>
     ELSE /\ suspicious_emails' =
               IF truthy(analysis.fields["is_suspicious"])
               THEN Append(suspicious_emails,
                           [email |-> Head(todo), analysis |-> analysis])
               ELSE suspicious_emails
          /\ todo' = Tail(todo)
          /\ attempt' = 0
          /\ calls' = 0
          /\ apc' = IF Tail(todo) = <<>> THEN "report" ELSE "analyze"
  /\ UNCHANGED <<agent, emails, response, analysis, contextual_frauds, report>>
  /\ UNCHANGED <<standalone_vars, main_vars>>

GenerateFinalReport ==
  /\ agent = "conspiracy"
  /\ apc = "report"
  /\ IF final_report_raises(suspicious_emails)
     THEN apc' = "raised" /\ UNCHANGED report
     ELSE /\ report' = generate_final_report(suspicious_emails, Len(emails))
          /\ apc' = "done"
  /\ UNCHANGED <<agent, emails, todo, attempt, calls, response, analysis,
                 suspicious_emails, contextual_frauds>>
  /\ UNCHANGED <<standalone_vars, main_vars>>

(* analyze_contextual_frauds up to the loop of its first strategy. *)
FilterSuspiciousEmails ==
  /\ agent = "contextual"
  /\ apc = "load"
  /\ todo' = suspicious_emails_of(emails)
  /\ contextual_frauds' = <<>>
  /\ apc' = "coordinated"
  /\ UNCHANGED <<agent, emails, attempt, calls, response, analysis,
                 suspicious_emails, report>>
  /\ UNCHANGED <<standalone_vars, main_vars>>

(* One pass of the loop of a strategy: the analyser calls the model once   *)
(* and parses the response, and the caller records the analysis or not.    *)
Detect(site) ==
  /\ agent = "contextual"
  /\ todo # <<>>
  /\ \E reply \in Responses(site) :
        /\ response' = reply
        /\ calls' = 1
        /\ analysis' = analyze_response(site, reply)
        /\ contextual_frauds' = IF is_recorded(site, analysis')
                     THEN Append(contextual_frauds, fraud_record(site, Head(todo), analysis'))
                     ELSE contextual_frauds
  /\ todo' = Tail(todo)
  /\ UNCHANGED <<agent, apc, emails, attempt, suspicious_emails, report>>
  /\ UNCHANGED <<standalone_vars, main_vars>>

(* The end of a strategy and the filter of the next one. *)
NextStrategy(emails_of, next) ==
  /\ agent = "contextual"
  /\ todo = <<>>
  /\ todo' = emails_of
  /\ calls' = 0
  /\ apc' = next
  /\ UNCHANGED <<agent, emails, attempt, response, analysis, suspicious_emails,
                 contextual_frauds, report>>
  /\ UNCHANGED <<standalone_vars, main_vars>>

DetectCoordinatedFraud == apc = "coordinated" /\ Detect("coordination")

FilterJustificationEmails ==
  apc = "coordinated" /\ NextStrategy(justification_emails_of(emails), "justifications")

DetectFalseJustifications == apc = "justifications" /\ Detect("justification")

FilterHidingEmails ==
  apc = "justifications" /\ NextStrategy(hiding_emails_of(emails), "hidden")

DetectHiddenInformation == apc = "hidden" /\ Detect("hiding")

GenerateContextualReport ==
  /\ agent = "contextual"
  /\ apc = "hidden"
  /\ todo = <<>>
  /\ IF contextual_report_raises(contextual_frauds)
     THEN apc' = "raised" /\ UNCHANGED report
     ELSE /\ report' = generate_contextual_report(contextual_frauds, Len(emails), Len(df))
          /\ apc' = "done"
  /\ UNCHANGED <<agent, emails, todo, attempt, calls, response, analysis,
                 suspicious_emails, contextual_frauds>>
  /\ UNCHANGED <<standalone_vars, main_vars>>

NextSemantic ==
  \/ FilterRelevantEmails
  \/ AnalyzeSingleEmail
  \/ RecordAnalysis
  \/ GenerateFinalReport
  \/ FilterSuspiciousEmails
  \/ DetectCoordinatedFraud
  \/ FilterJustificationEmails
  \/ DetectFalseJustifications
  \/ FilterHidingEmails
  \/ DetectHiddenInformation
  \/ GenerateContextualReport

SpecSemantic == InitSemantic /\ [][NextSemantic]_vars

-----------------------------------------------------------------------------
(* Vocabulary of the properties. *)

AfterDedup == pc \in {"report", "done"}

IsPair(v) == "id_1" \in DOMAIN v.transaction

(* The identity key of a violation: the transaction's own id, or the       *)
(* unordered pair of ids of a smurfing violation.                          *)
IdentityKey(v) ==
  IF IsPair(v)
  THEN [pair |-> TRUE, ids |-> {v.transaction.id_1, v.transaction.id_2}]
  ELSE [pair |-> FALSE, ids |-> {v.transaction.id_transacao}]

(* No two rows of the table carry the same transaction id. *)
UniqueIds(d) ==
  \A i, j \in 1..Len(d) : d[i].id_transacao = d[j].id_transacao => i = j

WithKey(frauds, key) == {k \in 1..Len(frauds) : IdentityKey(frauds[k]) = key}

MaxSeverity(frauds, key) ==
  CHOOSE s \in {frauds[k].severity : k \in WithKey(frauds, key)} :
    \A k \in WithKey(frauds, key) : frauds[k].severity <= s

-----------------------------------------------------------------------------
(* C1: after deduplication, every identity key that has a violation in the *)
(* concatenated input has exactly one violation in the output, and that    *)
(* one carries the highest severity the input has for the key.  Stated on *)
(* the tables whose transaction ids are unique, where it already fails.    *)
C1_OnePerIdentityKeyWithMaxSeverity ==
  (AfterDedup /\ UniqueIds(df)) =>
    \A i \in 1..Len(fraudulent_transactions) :
      LET key == IdentityKey(fraudulent_transactions[i])
          kept == WithKey(unique_frauds, key)
      IN /\ Cardinality(kept) = 1
         /\ \A k \in kept :
              unique_frauds[k].severity = MaxSeverity(fraudulent_transactions, key)

(* C2: two SMURFING violations of the input with different unordered id    *)
(* pairs are both in the deduplicated output, also when the pairs share a  *)
(* transaction.  Stated on the tables whose transaction ids are unique,    *)
(* where it already fails.                                                 *)
C2_DistinctPairsBothKept ==
  (AfterDedup /\ UniqueIds(df)) =>
    \A i, j \in 1..Len(fraudulent_transactions) :
      LET a == fraudulent_transactions[i]
          b == fraudulent_transactions[j]
      IN (IsPair(a) /\ IsPair(b) /\ IdentityKey(a) # IdentityKey(b)) =>
           /\ \E k \in 1..Len(unique_frauds) : unique_frauds[k] = a
           /\ \E k \in 1..Len(unique_frauds) : unique_frauds[k] = b

(* A row's description holds a deny-listed keyword (in any position of the *)
(* list), and the row is in the suspicious category: the preconditions of  *)
(* rules 1 and 5 as the spec words them.                                   *)
ListedIn ==
  [desc \in Descriptions |->
     {k \in 1..Len(prohibited_keywords) :
        contains(prohibited_keywords[k], lower(desc))}]

HoldsKeyword(row) == ListedIn[row.descricao] # {}

InSuspiciousCategory(row) ==
  /\ "categoria" \in DOMAIN row
  /\ row.categoria = <<"S", "e", "g", "u", "r", "a", "n", "ç", "a">>

(* The violations of a list that reference one transaction by its own id. *)
SingleFor(frauds, id) ==
  {k \in 1..Len(frauds) :
     ~IsPair(frauds[k]) /\ frauds[k].transaction.id_transacao = id}

(* C3: a transaction that matches the prohibited-item rule and the         *)
(* suspicious-category rule appears exactly once in the final output, as   *)
(* the prohibited-item violation, whatever other rules fire.  Stated on    *)
(* the tables whose transaction ids are unique, where it already fails.    *)
C3_ProhibitedBeatsSuspicious ==
  (pc = "done" /\ UniqueIds(df)) =>
    \A i \in 1..Len(df) :
      (HoldsKeyword(df[i]) /\ InSuspiciousCategory(df[i])) =>
        LET kept == SingleFor(result.fraudulent_transactions, df[i].id_transacao)
        IN /\ Cardinality(kept) = 1
           /\ \A k \in kept :
                result.fraudulent_transactions[k].violation_type = "ITEM_PROIBIDO"

(* The precondition of rule 2 as the spec words it: an amount above 500    *)
(* and no approval marker ("po", "purchase order", "p.o.") in the          *)
(* description, case-insensitively.                                        *)
HoldsApprovalMarker(row) ==
  \/ contains(<<"p", "o">>, lower(row.descricao))
  \/ contains(<<"p", "u", "r", "c", "h", "a", "s", "e", " ", "o", "r", "d", "e", "r">>,
              lower(row.descricao))
  \/ contains(<<"p", ".", "o", ".">>, lower(row.descricao))

NeedsApproval(row) == row.valor > 500 /\ ~HoldsApprovalMarker(row)

(* The VALOR_NAO_AUTORIZADO violations of a list that reference an id. *)
UnauthorizedFor(frauds, id) ==
  {k \in SingleFor(frauds, id) : frauds[k].violation_type = "VALOR_NAO_AUTORIZADO"}

(* C4 as first stated: for every row with an amount above 500 and no       *)
(* approval marker, the violations analyze_transactions returns hold       *)
(* exactly one VALOR_NAO_AUTORIZADO violation referencing that             *)
(* transaction.                                                            *)
C4_ExactlyOneUnauthorizedReturned ==
  pc = "done" =>
    \A i \in 1..Len(df) :
      NeedsApproval(df[i]) =>
        Cardinality(UnauthorizedFor(result.fraudulent_transactions,
                                    df[i].id_transacao)) = 1

(* A violation more severe than an unauthorized amount was retained under  *)
(* the deduplication key `id`.                                             *)
MoreSevereRetained(frauds, id) ==
  \E k \in 1..Len(frauds) :
     /\ tx_key(frauds[k].transaction) = id
     /\ frauds[k].severity > 7

(* C4, amended: for every row with an amount above 500 and no approval     *)
(* marker, the violations analyze_transactions returns hold at most one    *)
(* VALOR_NAO_AUTORIZADO violation referencing that transaction, and        *)
(* exactly one unless the deduplicator retained a more severe violation    *)
(* under the transaction's key, in which case they hold none.              *)
C4_OneUnauthorizedUnlessMoreSevere ==
  pc = "done" =>
    \A i \in 1..Len(df) :
      NeedsApproval(df[i]) =>
        LET n == Cardinality(UnauthorizedFor(result.fraudulent_transactions,
                                             df[i].id_transacao))
        IN IF MoreSevereRetained(result.fraudulent_transactions, df[i].id_transacao)
           THEN n = 0
           ELSE n = 1

(* C4 witness: a run returned the unauthorized-amount violation of a row   *)
(* that is also in the suspicious category, and dropped that of another    *)
(* row in favour of a more severe violation.                               *)
C4_Witness ==
  /\ pc = "done"
  /\ \E i, j \in 1..Len(df) :
        /\ NeedsApproval(df[i]) /\ InSuspiciousCategory(df[i])
        /\ Cardinality(UnauthorizedFor(result.fraudulent_transactions,
                                       df[i].id_transacao)) = 1
        /\ NeedsApproval(df[j])
        /\ MoreSevereRetained(result.fraudulent_transactions, df[j].id_transacao)

(* The first violation of the input with the given identity key and        *)
(* severity.                                                               *)
FirstWith(frauds, key, severity) ==
  CHOOSE k \in WithKey(frauds, key) :
    /\ frauds[k].severity = severity
    /\ \A m \in WithKey(frauds, key) : frauds[m].severity = severity => k <= m

(* C5: when several violations of the input with one identity key share    *)
(* the highest severity of that key, the deduplicated output retains the   *)
(* one emitted first.                                                      *)
C5_FirstWriterWinsOnTie ==
  AfterDedup =>
    \A i \in 1..Len(fraudulent_transactions) :
      LET key == IdentityKey(fraudulent_transactions[i])
          top == MaxSeverity(fraudulent_transactions, key)
          tied == {k \in WithKey(fraudulent_transactions, key) :
                     fraudulent_transactions[k].severity = top}
      IN Cardinality(tied) >= 2 =>
           \E k \in 1..Len(unique_frauds) :
              unique_frauds[k] =
                fraudulent_transactions[FirstWith(fraudulent_transactions, key, top)]

-----------------------------------------------------------------------------
(* Smurfing properties. *)

AfterSmurfing == pc \in {"restricted", "suspicious", "dedup", "report", "done"}

SameDay(r1, r2) == r1.funcionario = r2.funcionario /\ r1.data = r2.data

InRange(row) == 300 <= row.valor /\ row.valor <= 500

(* Jaccard index of the two descriptions' word sets against 0.6 = 6/10;    *)
(* the index is 0 when either set is empty.                                *)
JaccardAbove(r1, r2) ==
  LET a == word_set[r1.descricao]
      b == word_set[r2.descricao]
  IN a # {} /\ b # {} /\ 10 * Cardinality(a \cap b) > 6 * Cardinality(a \cup b)

JaccardAtLeast(r1, r2) ==
  LET a == word_set[r1.descricao]
      b == word_set[r2.descricao]
  IN a # {} /\ b # {} /\ 10 * Cardinality(a \cap b) >= 6 * Cardinality(a \cup b)

Structured(r1, r2) ==
  JaccardAbove(r1, r2) /\ InRange(r1) /\ InRange(r2) /\ r1.valor + r2.valor > 500

(* A smurfing violation that references the ids of the two rows. *)
ReferencesIds(v, r1, r2) ==
  /\ IsPair(v)
  /\ v.violation_type = "SMURFING"
  /\ {v.transaction.id_1, v.transaction.id_2} = {r1.id_transacao, r2.id_transacao}

(* A smurfing violation whose record is that of the two rows, in the       *)
(* order given.                                                            *)
BuiltFrom(v, r1, r2) ==
  /\ IsPair(v)
  /\ v.violation_type = "SMURFING"
  /\ v.transaction.id_1 = r1.id_transacao /\ v.transaction.id_2 = r2.id_transacao
  /\ v.transaction.valor_1 = r1.valor /\ v.transaction.valor_2 = r2.valor
  /\ v.transaction.descricao_1 = r1.descricao
  /\ v.transaction.descricao_2 = r2.descricao
  /\ v.transaction.funcionario = r1.funcionario /\ v.transaction.data = r1.data
  /\ v.transaction.funcionario = r2.funcionario /\ v.transaction.data = r2.data

IsFor(v, r1, r2) == BuiltFrom(v, r1, r2) \/ BuiltFrom(v, r2, r1)

(* C6 as first stated: for every pair of rows of one employee and day, a   *)
(* SMURFING violation of severity 10 is emitted for that pair (a record of *)
(* those two rows) exactly when the pair is similar above 0.6, both        *)
(* amounts are in [300, 500] and their sum exceeds 500; rows of different  *)
(* employees or days get no violation.                                     *)
C6_ViolationPerRowPairIff ==
  AfterSmurfing =>
    \A i, j \in 1..Len(df) :
      i < j =>
        LET flagged == \E k \in 1..Len(smurfing_cases) :
                          /\ IsFor(smurfing_cases[k], df[i], df[j])
                          /\ smurfing_cases[k].severity = 10
        IN IF SameDay(df[i], df[j])
           THEN flagged <=> Structured(df[i], df[j])
           ELSE ~flagged

(* C6, amended: every pair of rows of one employee and day that is similar *)
(* above 0.6, with both amounts in [300, 500] and a sum above 500, has a   *)
(* SMURFING violation of severity 10 referencing the two rows' ids; and    *)
(* every violation emitted is the record of two distinct rows of one       *)
(* employee and day that satisfy these conditions.                         *)
C6_FlaggedIffStructured ==
  AfterSmurfing =>
    /\ \A i, j \in 1..Len(df) :
         (i < j /\ SameDay(df[i], df[j]) /\ Structured(df[i], df[j])) =>
           \E k \in 1..Len(smurfing_cases) :
              /\ ReferencesIds(smurfing_cases[k], df[i], df[j])
              /\ smurfing_cases[k].severity = 10
    /\ \A k \in 1..Len(smurfing_cases) :
         /\ smurfing_cases[k].severity = 10
         /\ \E i, j \in 1..Len(df) :
              /\ i # j
              /\ BuiltFrom(smurfing_cases[k], df[i], df[j])
              /\ SameDay(df[i], df[j])
              /\ Structured(df[i], df[j])

(* C6 witness: one run flagged a structured pair and left unflagged a pair *)
(* of rows of the same day with equal descriptions and an amount below     *)
(* 300.                                                                    *)
C6_Witness ==
  /\ AfterSmurfing
  /\ \E i, j \in 1..Len(df) :
        /\ i < j /\ SameDay(df[i], df[j]) /\ Structured(df[i], df[j])
        /\ \E k \in 1..Len(smurfing_cases) : IsFor(smurfing_cases[k], df[i], df[j])
  /\ \E i, j \in 1..Len(df) :
        /\ SameDay(df[i], df[j]) /\ df[i].descricao = df[j].descricao
        /\ df[i].valor < 300 /\ InRange(df[j])
        /\ \A k \in 1..Len(smurfing_cases) : ~IsFor(smurfing_cases[k], df[i], df[j])

(* C7 as first stated: two rows of one employee and day with both amounts  *)
(* in [300, 500] and a similarity of at least 0.6, exactly 0.6 included,   *)
(* get a SMURFING violation of severity 10.                                *)
C7_FlaggedFromSixtyPercent ==
  AfterSmurfing =>
    \A i, j \in 1..Len(df) :
      (i < j /\ SameDay(df[i], df[j]) /\ InRange(df[i]) /\ InRange(df[j])
         /\ JaccardAtLeast(df[i], df[j])) =>
        \E k \in 1..Len(smurfing_cases) :
           /\ ReferencesIds(smurfing_cases[k], df[i], df[j])
           /\ smurfing_cases[k].severity = 10

(* C7, amended: two rows of one employee and day with both amounts in      *)
(* [300, 500] and a similarity strictly above 0.6 get a SMURFING violation *)
(* of severity 10.                                                         *)
C7_FlaggedAboveSixtyPercent ==
  AfterSmurfing =>
    \A i, j \in 1..Len(df) :
      (i < j /\ SameDay(df[i], df[j]) /\ InRange(df[i]) /\ InRange(df[j])
         /\ JaccardAbove(df[i], df[j])) =>
        \E k \in 1..Len(smurfing_cases) :
           /\ ReferencesIds(smurfing_cases[k], df[i], df[j])
           /\ smurfing_cases[k].severity = 10

(* C7 witness: amounts 350 and 400, descriptions 4/5 alike, flagged. *)
C7_Witness ==
  /\ AfterSmurfing
  /\ \E i, j \in 1..Len(df) :
        /\ SameDay(df[i], df[j])
        /\ df[i].valor = 350 /\ df[j].valor = 400
        /\ JaccardAbove(df[i], df[j])
        /\ df[i].descricao # df[j].descricao
        /\ \E k \in 1..Len(smurfing_cases) :
              /\ IsFor(smurfing_cases[k], df[i], df[j])
              /\ smurfing_cases[k].severity = 10

(* C8: no two SMURFING violations emitted by one run of the evaluator      *)
(* reference the same unordered pair of transaction ids.                   *)
C8_PairReportedOnce ==
  AfterSmurfing =>
    \A k, m \in 1..Len(smurfing_cases) :
      IdentityKey(smurfing_cases[k]) = IdentityKey(smurfing_cases[m]) => k = m

(* C8 witness: two different pairs of rows with the same pair of ids are   *)
(* both structured, and the run emitted one violation for those ids.       *)
C8_Witness ==
  /\ AfterSmurfing
  /\ \E i, j, k, m \in 1..Len(df) :
        /\ i < j /\ k < m /\ <<i, j>> # <<k, m>>
        /\ {df[i].id_transacao, df[j].id_transacao}
             = {df[k].id_transacao, df[m].id_transacao}
        /\ SameDay(df[i], df[j]) /\ Structured(df[i], df[j])
        /\ SameDay(df[k], df[m]) /\ Structured(df[k], df[m])
        /\ df[i] # df[k]
        /\ Cardinality({n \in 1..Len(smurfing_cases) :
                          ReferencesIds(smurfing_cases[n], df[i], df[j])}) = 1

-----------------------------------------------------------------------------
(* Properties of the single-row evaluators. *)

AfterProhibited == pc \notin {"load", "prohibited", "raised"}

AfterSuspicious == pc \in {"dedup", "report", "done"}

(* The deny-listed keyword that comes first in the list among those the    *)
(* row's description holds.                                                *)
FirstListed(row) ==
  prohibited_keywords[CHOOSE k \in ListedIn[row.descricao] :
                        \A m \in ListedIn[row.descricao] : k <= m]

(* C9: the prohibited-item evaluator emits, in table order, one            *)
(* ITEM_PROIBIDO violation of severity 9 for each row whose lower-cased    *)
(* description holds a deny-listed keyword, whatever their number, none    *)
(* for the other rows, and names the first keyword in deny-list order.     *)
C9_OneProhibitedPerRowFirstKeyword ==
  AfterProhibited =>
    LET hits == SelectSeq(df, HoldsKeyword)
    IN /\ Len(prohibited_items) = Len(hits)
       /\ \A k \in 1..Len(hits) :
            /\ prohibited_items[k].transaction = hits[k]
            /\ prohibited_items[k].violation_type = "ITEM_PROIBIDO"
            /\ prohibited_items[k].severity = 9
            /\ prohibited_items[k].reason[2] = FirstListed(hits[k])

(* C9 witness: a row whose description holds two keywords, the later one   *)
(* of the list standing first in the text, got one violation; another row  *)
(* holds no keyword.                                                       *)
C9_Witness ==
  /\ AfterProhibited
  /\ Len(prohibited_items) = 1
  /\ Cardinality(ListedIn[prohibited_items[1].transaction.descricao]) >= 2
  /\ prohibited_items[1].reason[2] = <<"s", "w", "o", "r", "d">>
  /\ \E i \in 1..Len(df) : ~HoldsKeyword(df[i])

(* A violation of the suspicious-category evaluator for row i of df. *)
SuspicionOf(i) ==
  \E k \in 1..Len(suspicious_categories) :
     /\ suspicious_categories[k].transaction = df[i]
     /\ suspicious_categories[k].violation_type = "CATEGORIA_SUSPEITA"
     /\ suspicious_categories[k].severity = 7

InSecurityCategory(row) ==
  /\ "categoria" \in DOMAIN row
  /\ row.categoria = <<"S", "e", "c", "u", "r", "i", "t", "y">>

(* C10 as first stated: the suspicious-category evaluator flags, with      *)
(* severity 7, exactly the rows whose category is "Segurança" or           *)
(* "Security".                                                             *)
C10_FlagsBothSpellings ==
  AfterSuspicious =>
    \A i \in 1..Len(df) :
      SuspicionOf(i) <=> (InSuspiciousCategory(df[i]) \/ InSecurityCategory(df[i]))

(* C10, amended: the suspicious-category evaluator emits, in table order,  *)
(* one violation of severity 7 for each row whose category is exactly      *)
(* "Segurança" and none for the other rows, a row of category "Security"   *)
(* included.                                                               *)
C10_FlagsSegurancaOnly ==
  AfterSuspicious =>
    LET hits == SelectSeq(df, InSuspiciousCategory)
    IN /\ Len(suspicious_categories) = Len(hits)
       /\ \A k \in 1..Len(hits) :
            /\ suspicious_categories[k].transaction = hits[k]
            /\ suspicious_categories[k].violation_type = "CATEGORIA_SUSPEITA"
            /\ suspicious_categories[k].severity = 7

(* C10 witness: a row of category "Segurança" was flagged and a row of     *)
(* category "Security" was not.                                            *)
C10_Witness ==
  /\ AfterSuspicious
  /\ \E i, j \in 1..Len(df) :
        /\ InSuspiciousCategory(df[i]) /\ SuspicionOf(i)
        /\ InSecurityCategory(df[j]) /\ ~SuspicionOf(j)

-----------------------------------------------------------------------------
(* The detectors that consult the language model. *)

(* The keys a call site asks the model for. *)
asked_keys(site) ==
  {flag_key[site], "severity", reason_key[site], evidence_key[site]}

(* The call site whose strategy recorded a fraud. *)
site_of(fraud) ==
  CHOOSE site \in CallSites \ {"conspiracy"} :
     violation_type_of[site] = fraud.violation_type

(* C11: every fraud the contextual detector has recorded comes from a      *)
(* parsed response that holds every key its call site asks for: the flag   *)
(* key, severity, reason and evidence.                                     *)
C11_RecordedOnlyWithAllKeys ==
  \A k \in 1..Len(contextual_frauds) :
     asked_keys(site_of(contextual_frauds[k]))
        \subseteq DOMAIN contextual_frauds[k].analysis.fields

(* The call site of the strategy the contextual detector is in. *)
site_at ==
  CASE apc = "coordinated" -> "coordination"
    [] apc = "justifications" -> "justification"
    [] apc = "hidden" -> "hiding"

InStrategy == agent = "contextual" /\ apc \in {"coordinated", "justifications", "hidden"}

(* A response is well formed for a call site when it is text that parses   *)
(* into an object holding every key the site asks for.                     *)
WellFormed(site, reply) ==
  /\ reply.kind = "text"
  /\ loads_json(site, reply)
  /\ reply.value.type = "dict"
  /\ asked_keys(site) \subseteq DOMAIN reply.value.fields

(* C12: when the response the contextual detector got for an email is      *)
(* malformed (unparseable or missing keys), the analyser has queried the   *)
(* model again, at least once, before it goes on with the not-flagged      *)
(* outcome for that email.                                                 *)
C12_MalformedIsRetried ==
  (InStrategy /\ calls > 0 /\ ~WellFormed(site_at, response)) => calls >= 2

(* A response parsed into an object that holds is_suspicious, severity and *)
(* reasoning.                                                              *)
ParsedWithRequiredKeys(reply) ==
  /\ reply.kind = "text"
  /\ loads_json("conspiracy", reply)
  /\ reply.value.type = "dict"
  /\ {"is_suspicious", "severity", "reasoning"} \subseteq DOMAIN reply.value.fields

(* _analyze_single_email has returned and analyze_emails holds what it     *)
(* returned.                                                               *)
SingleEmailAnalyzed == agent = "conspiracy" /\ apc = "record"

IsFallback(value) ==
  /\ value.type = "dict"
  /\ DOMAIN value.fields =
       {"is_suspicious", "severity", "reasoning", "evidence_quotes"}
  /\ value.fields["is_suspicious"] = PyBool(FALSE)
  /\ value.fields["severity"] = PyInt(0)

(* C13: _analyze_single_email has called the model at most 2 times for an  *)
(* email, and what it returns is the model's analysis only when the last   *)
(* response parsed into an object with is_suspicious, severity and         *)
(* reasoning; in every other case it is the fallback with is_suspicious    *)
(* False and severity 0.                                                   *)
C13_AnalysisOrFallback ==
  SingleEmailAnalyzed =>
    /\ calls <= 2
    /\ IF ParsedWithRequiredKeys(response)
       THEN analysis = response.value
       ELSE IsFallback(analysis)

(* An exception has left analyze_emails or analyze_contextual_frauds. *)
ExceptionEscaped == agent \in {"conspiracy", "contextual"} /\ apc = "raised"

(* C14: whatever the model does on each call (raise, return text that is   *)
(* no JSON, JSON that is no object, an object with missing or wrongly      *)
(* typed fields), no exception leaves analyze_emails or                    *)
(* analyze_contextual_frauds.                                              *)
C14_NoExceptionEscapes == ~ExceptionEscaped

-----------------------------------------------------------------------------
(* The rule-based detector: repeated runs, the empty table, the loader,    *)
(* the order of the evaluators.                                            *)

(* The second call of analyze_transactions on the file has returned. *)
SecondRunDone == pc = "done" /\ Len(previous) = 1

NoViolationsReport == [status |-> "NENHUMA VIOLAÇÃO DETECTADA"]

TableLoaded == pc \notin {"load", "load_failed"}

(* C16: on an empty table no evaluator emits a violation and none raises,  *)
(* and analyze_transactions returns zero violations; and whenever the      *)
(* deduplicated list is empty, on an empty table or not, the report is the *)
(* "no violations" status alone, which no run with a violation reports.    *)
C16_EmptyGivesNoViolationsStatus ==
  /\ (TableLoaded /\ df = <<>>) =>
       /\ pc # "raised"
       /\ prohibited_items = <<>>
       /\ unauthorized_amounts = <<>>
       /\ smurfing_cases = <<>>
       /\ restricted_locations = <<>>
       /\ suspicious_categories = <<>>
       /\ fraudulent_transactions = <<>>
       /\ unique_frauds = <<>>
  /\ pc = "done" =>
       /\ result.total_transactions = Len(df)
       /\ result.total_frauds = Len(result.fraudulent_transactions)
       /\ df = <<>> => result.total_frauds = 0
       /\ IF result.fraudulent_transactions = <<>>
          THEN result.report = NoViolationsReport
          ELSE /\ result.report.status # NoViolationsReport.status
               /\ DOMAIN result.report # DOMAIN NoViolationsReport

(* C16 witness: analyze_transactions has returned on a file whose rows     *)
(* were all dropped, with the "no violations" report.                      *)
C16_Witness ==
  /\ pc = "done"
  /\ csv.rows # <<>>
  /\ df = <<>>
  /\ result.report = NoViolationsReport

(* The file lacks one of the columns id_transacao, funcionario, data,      *)
(* valor, descricao.                                                       *)
RequiredColumnAbsent ==
  ~({"id_transacao", "funcionario", "data", "valor", "descricao"}
      \subseteq csv.columns)

(* C17: on a file that lacks a required column load_transactions fails     *)
(* before it parses a row: the run never gets past the loading, no table   *)
(* is held, no evaluator has produced a list, and there is neither a       *)
(* deduplicated list nor a result.                                         *)
C17_MissingColumnFailsLoad ==
  RequiredColumnAbsent =>
    /\ pc \in {"load", "load_failed"}
    /\ df = <<>>
    /\ prohibited_items = <<>>
    /\ unauthorized_amounts = <<>>
    /\ smurfing_cases = <<>>
    /\ restricted_locations = <<>>
    /\ suspicious_categories = <<>>
    /\ fraudulent_transactions = <<>>
    /\ unique_frauds = <<>>

(* C17 witness: load_transactions has failed on a file that has rows and   *)
(* lacks only the description among the required columns.                  *)
C17_Witness ==
  /\ pc = "load_failed"
  /\ csv.rows # <<>>
  /\ "descricao" \notin csv.columns
  /\ {"id_transacao", "funcionario", "data", "valor"} \subseteq csv.columns

(* The lines of the file whose amount parses as a number and whose date    *)
(* parses as a date, and the k-th of them in the order of the file.        *)
ParsingLines ==
  {i \in 1..Len(csv.rows) :
     ~numeric[csv.rows[i].valor].na /\ ~datetime[csv.rows[i].data].na}

ParsingLine(k) ==
  CHOOSE i \in ParsingLines : Cardinality({j \in ParsingLines : j < i}) = k - 1

(* C18: the table load_transactions returns holds exactly the lines of the *)
(* file whose amount and date parse, in the order of the file, a line that *)
(* occurs twice kept twice, each with its cells as they are and its amount *)
(* and date as parsed; a line that fails a parse is not in the table.      *)
C18_ReturnsExactlyParsingRows ==
  (TableLoaded /\ ~RequiredColumnAbsent) =>
    /\ Len(df) = Cardinality(ParsingLines)
    /\ \A k \in 1..Len(df) :
         LET line == csv.rows[ParsingLine(k)]
         IN /\ DOMAIN df[k] = csv.columns
            /\ \A col \in csv.columns \ {"valor", "data"} : df[k][col] = line[col]
            /\ df[k].valor = numeric[line.valor].value
            /\ df[k].data = datetime[line.data].value

(* C18 witness: of three lines the first and the third are the same and    *)
(* parse, the second does not, and the table holds the two equal rows.     *)
C18_Witness ==
  /\ TableLoaded
  /\ ~RequiredColumnAbsent
  /\ Len(csv.rows) = 3
  /\ csv.rows[1] = csv.rows[3]
  /\ ParsingLines = {1, 3}
  /\ Len(df) = 2
  /\ df[1] = df[2]

(* The table as it was loaded, before any evaluator ran. *)
LoadedTable == load_transactions(csv)

EvaluatorRank(v) ==
  CASE v.violation_type = "ITEM_PROIBIDO" -> 1
    [] v.violation_type = "VALOR_NAO_AUTORIZADO" -> 2
    [] v.violation_type = "SMURFING" -> 3
    [] v.violation_type = "LOCAL_RESTRITO" -> 4
    [] v.violation_type = "CATEGORIA_SUSPEITA" -> 5

AllCollected == pc \in {"dedup", "report", "done"}

(* C20: the sequence analyze_transactions hands to the deduplication is    *)
(* the outputs of the prohibited-item, unauthorized-amount, smurfing,      *)
(* restricted-location and suspicious-category evaluators, concatenated in *)
(* this order; no violation of a later evaluator precedes one of an        *)
(* earlier evaluator.                                                      *)
C20_ConcatenatedInFixedOrder ==
  AllCollected =>
    /\ fraudulent_transactions =
         prohibited_items \o unauthorized_amounts \o smurfing_cases
           \o restricted_locations \o suspicious_categories
    /\ \A i, j \in 1..Len(fraudulent_transactions) :
         i < j => EvaluatorRank(fraudulent_transactions[i])
                    <= EvaluatorRank(fraudulent_transactions[j])

(* C20 witness: three of the evaluators, the first, the third and the      *)
(* last, have each contributed to the collected sequence.                  *)
C20_Witness ==
  /\ AllCollected
  /\ prohibited_items # <<>>
  /\ smurfing_cases # <<>>
  /\ suspicious_categories # <<>>

-----------------------------------------------------------------------------
(* The report, the violations file, the severities. *)

Listed(report_of) == {report_of.top[i] : i \in 1..Len(report_of.top)}

Reported == pc = "done" /\ result.fraudulent_transactions # <<>>

(* C21: for a non-empty deduplicated list the report counts as high        *)
(* severity exactly the violations of severity 8 or more, and lists 10     *)
(* violations, or all when there are fewer, each a violation of the list   *)
(* and none twice, in non-increasing severity, and no violation that is    *)
(* left out has a higher severity than a listed one.                       *)
C21_HighCountAndTopTen ==
  Reported =>
    LET found == result.fraudulent_transactions
        top == result.report.top
        all == {found[k] : k \in 1..Len(found)}
    IN /\ result.report.high_severity =
            Cardinality({k \in 1..Len(found) : found[k].severity >= 8})
       /\ Len(top) <= 10
       /\ Len(top) = (IF Len(found) < 10 THEN Len(found) ELSE 10)
       /\ Listed(result.report) \subseteq all
       /\ \A i, j \in 1..Len(top) : i < j =>
            /\ top[i] # top[j]
            /\ top[i].severity >= top[j].severity
       /\ \A v \in all \ Listed(result.report) :
            \A i \in 1..Len(top) : v.severity <= top[i].severity

(* C21 witness: of twelve violations, which come in an order that is not   *)
(* by severity, one is of high severity and is listed first, ten are       *)
(* listed, and two of severity 6 are left out.                             *)
C21_Witness ==
  /\ Reported
  /\ Len(result.fraudulent_transactions) = 12
  /\ result.fraudulent_transactions[2].severity = 6
  /\ result.fraudulent_transactions[12].severity = 7
  /\ result.report.high_severity = 1
  /\ Len(result.report.top) = 10
  /\ result.report.top[1].severity = 9
  /\ result.report.top[10].severity = 6

(* The ids a cell of the identifier column reads as: the two ids around    *)
(* the separator " + ", or the one id the cell holds.                      *)
IdsRead(cell) ==
  LET cut == {i \in 1..Len(cell) - 2 :
                SubSeq(cell, i, i + 2) = <<" ", "+", " ">>}
  IN IF cut = {} THEN <<cell>>
     ELSE LET i == CHOOSE c \in cut : \A other \in cut : c <= other
          IN <<SubSeq(cell, 1, i - 1), SubSeq(cell, i + 3, Len(cell))>>

(* The ids a violation references. *)
IdsOf(v) ==
  IF IsPair(v) THEN <<v.transaction.id_1, v.transaction.id_2>>
  ELSE <<v.transaction.id_transacao>>

(* C22: the violations file that was written has an identifier column and  *)
(* a severity column and one row per violation of the deduplicated list,   *)
(* in its order; the identifier cell of a row reads back as the id of the  *)
(* violation, or for a smurfing pair as its two ids around a separator,    *)
(* and the severity cell as its severity.                                  *)
C22_ViolationsFileRoundTrip ==
  saved.written =>
    LET found == result.fraudulent_transactions
        columns == {saved.columns[i] : i \in 1..Len(saved.columns)}
    IN /\ {"id_transacao", "severity"} \subseteq columns
       /\ Len(saved.rows) = Len(found)
       /\ \A k \in 1..Len(found) :
            /\ is_text(saved.rows[k].id_transacao)
            /\ IdsRead(saved.rows[k].id_transacao) = IdsOf(found[k])
            /\ number_from(saved.rows[k].severity, 1, 0) = found[k].severity

(* A severity of the scale: an integer from 0 to 10. *)
OnScale(value) == value.type = "int" /\ value.num \in 0..10

(* C23: every record of a result that was returned carries an integer      *)
(* severity from 0 to 10: the violations of the rule evaluators, the       *)
(* suspicious emails of the conspiracy detector and the frauds of the      *)
(* contextual detector.                                                    *)
C23_SeverityOnScale ==
  /\ pc = "done" =>
       \A k \in 1..Len(result.fraudulent_transactions) :
          result.fraudulent_transactions[k].severity \in 0..10
  /\ (agent = "conspiracy" /\ apc = "done") =>
       \A k \in 1..Len(suspicious_emails) :
          OnScale(suspicious_emails[k].analysis.fields["severity"])
  /\ (agent = "contextual" /\ apc = "done") =>
       \A k \in 1..Len(contextual_frauds) :
          OnScale(contextual_frauds[k].severity)

(* analyze_transactions is between its start and its end. *)
Analyzing ==
  pc \in {"load", "prohibited", "unauthorized", "smurfing", "restricted",
          "suspicious", "dedup", "report"}

-----------------------------------------------------------------------------
(* The unauthorized-amount rule, descriptions that are no text, the emails *)
(* file, the menu.                                                         *)

AfterUnauthorized ==
  pc \in {"smurfing", "restricted", "suspicious", "dedup", "report", "done"}

HoldsTheLettersPo(row) == contains(<<"p", "o">>, lower(row.descricao))

(* C25: _check_unauthorized_amounts emits, in table order, one violation   *)
(* of severity 7 for each row whose amount is above 500 and whose          *)
(* lower-cased description holds none of "po", "purchase order", "p.o.",   *)
(* and none for the other rows: no row of amount 500 or less and no row    *)
(* whose description holds the letters "po" anywhere is flagged.           *)
C25_UnauthorizedIffAboveWithoutMarker ==
  AfterUnauthorized =>
    LET hits == SelectSeq(df, NeedsApproval)
    IN /\ Len(unauthorized_amounts) = Len(hits)
       /\ \A k \in 1..Len(hits) :
            /\ unauthorized_amounts[k].transaction = hits[k]
            /\ unauthorized_amounts[k].violation_type = "VALOR_NAO_AUTORIZADO"
            /\ unauthorized_amounts[k].severity = 7
            /\ hits[k].valor > 500
            /\ ~HoldsTheLettersPo(hits[k])

(* C25 witness: of three rows the evaluator flagged the one above 500 and  *)
(* flagged neither the row of exactly 500 nor the row above 500 whose      *)
(* description has "po" inside a word.                                     *)
C25_Witness ==
  /\ AfterUnauthorized
  /\ Len(unauthorized_amounts) = 1
  /\ \E i, j \in 1..Len(df) :
        /\ df[i].valor = 500 /\ ~HoldsTheLettersPo(df[i])
        /\ df[j].valor > 500 /\ df[j].descricao = SportKit

(* An exception has left analyze_transactions after the table was loaded. *)
AnalysisRaised == pc = "raised"

(* C26: on every table load_transactions returns, a row whose description  *)
(* is blank or is no text included, no evaluator raises: the run of        *)
(* analyze_transactions is never left by an exception.                     *)
C26_AnalysisNeverRaises == ~AnalysisRaised

-----------------------------------------------------------------------------
(* load_emails: the emails file read line by line.  content holds the file *)
(* as content.split('\n') yields it, one text for each line.               *)

(* Largest number of lines of an emails file. *)
MaxContentLines == 5

(* The characters str.strip removes. *)
strip_chars == {" ", "\n", "\t", "\r"}

(* str.strip *)
str_strip(s) ==
  LET kept == {i \in 1..Len(s) : s[i] \notin strip_chars}
  IN IF kept = {} THEN <<>>
     ELSE SubSeq(s, CHOOSE i \in kept : \A j \in kept : i <= j,
                    CHOOSE i \in kept : \A j \in kept : j <= i)

(* str.startswith *)
startswith(s, prefix) ==
  /\ Len(prefix) <= Len(s)
  /\ SubSeq(s, 1, Len(prefix)) = prefix

(* s.split(':', 1)[1].strip() for a text that holds a colon. *)
after_colon(s) ==
  LET first == CHOOSE i \in 1..Len(s) :
                 s[i] = ":" /\ \A j \in 1..(i - 1) : s[j] # ":"
  IN str_strip(SubSeq(s, first + 1, Len(s)))

(* '\n'.join(message_lines) *)
RECURSIVE join_from(_, _)
join_from(lines, i) ==
  IF i > Len(lines) THEN <<>>
  ELSE IF i = Len(lines) THEN lines[i]
  ELSE lines[i] \o <<"\n">> \o join_from(lines, i + 1)

join(lines) == join_from(lines, 1)

is_delimiter(line_stripped) ==
  \/ startswith(line_stripped, <<"-", "-", "-">>)
  \/ startswith(line_stripped, <<"=", "=", "=">>)

empty_email ==
  [remetente |-> <<>>, destinatario |-> <<>>, assunto |-> <<>>,
   data |-> <<>>, mensagem |-> <<>>]

(* The email appended to the list: the message joined and stripped, the    *)
(* two aliases added.                                                      *)
email_with_aliases(current_email, message_lines) ==
  [remetente |-> current_email.remetente,
   destinatario |-> current_email.destinatario,
   assunto |-> current_email.assunto,
   data |-> current_email.data,
   mensagem |-> str_strip(join(message_lines)),
   de |-> current_email.remetente,
   para |-> current_email.destinatario]

(* The state of the loop before its first line. *)
before_lines ==
  [emails |-> <<>>, current_email |-> empty_email, in_message |-> FALSE,
   message_lines |-> <<>>]

(* The test that saves the email in progress at a delimiter line, which    *)
(* reads the message field of current_email: the field is filled when the  *)
(* email is saved only.                                                    *)
saved_at_delimiter(s) ==
  s.current_email.remetente # <<>> \/ s.current_email.mensagem # <<>>

(* One turn of the loop over the lines. *)
parse_line(s, line) ==
  LET line_stripped == str_strip(line)
      field(name) ==
        [s EXCEPT !.current_email =
                    [s.current_email EXCEPT ![name] = after_colon(line_stripped)],
                  !.in_message = FALSE]
  IN IF is_delimiter(line_stripped)
     THEN IF saved_at_delimiter(s)
          THEN [emails |-> Append(s.emails,
                             email_with_aliases(s.current_email, s.message_lines)),
                current_email |-> empty_email,
                in_message |-> FALSE,
                message_lines |-> <<>>]
          ELSE s
     ELSE IF \/ startswith(line_stripped, <<"D", "e", ":">>)
             \/ startswith(line_stripped, <<"F", "r", "o", "m", ":">>)
     THEN field("remetente")
     ELSE IF \/ startswith(line_stripped, <<"P", "a", "r", "a", ":">>)
             \/ startswith(line_stripped, <<"T", "o", ":">>)
     THEN field("destinatario")
     ELSE IF \/ startswith(line_stripped,
                           <<"A", "s", "s", "u", "n", "t", "o", ":">>)
             \/ startswith(line_stripped,
                           <<"S", "u", "b", "j", "e", "c", "t", ":">>)
     THEN field("assunto")
     ELSE IF \/ startswith(line_stripped, <<"D", "a", "t", "a", ":">>)
             \/ startswith(line_stripped, <<"D", "a", "t", "e", ":">>)
     THEN field("data")
     ELSE IF \/ startswith(line_stripped,
                           <<"M", "e", "n", "s", "a", "g", "e", "m", ":">>)
             \/ startswith(line_stripped,
                           <<"M", "e", "s", "s", "a", "g", "e", ":">>)
     THEN LET msg_text == after_colon(line_stripped)
          IN [s EXCEPT !.in_message = TRUE,
                       !.message_lines =
                         IF msg_text # <<>> THEN Append(@, msg_text) ELSE @]
     ELSE IF line_stripped = <<>>
     THEN IF s.current_email.remetente # <<>> /\ ~s.in_message
          THEN [s EXCEPT !.in_message = TRUE]
          ELSE s
     ELSE IF \/ s.in_message
             \/ (s.current_email.remetente # <<>>
                 /\ s.current_email.mensagem = <<>>)
     THEN [s EXCEPT !.message_lines = Append(@, line), !.in_message = TRUE]
     ELSE s

RECURSIVE parse_lines_from(_, _, _)
parse_lines_from(s, lines, i) ==
  IF i > Len(lines) THEN s
  ELSE parse_lines_from(parse_line(s, lines[i]), lines, i + 1)

(* The last email, added after the loop. *)
with_last_email(s) ==
  IF s.current_email.remetente # <<>> \/ s.message_lines # <<>>
  THEN Append(s.emails, email_with_aliases(s.current_email, s.message_lines))
  ELSE s.emails

has_message(e) == str_strip(e.mensagem) # <<>>

load_emails(lines) ==
  SelectSeq(with_last_email(parse_lines_from(before_lines, lines, 1)),
            has_message)

Dashes == <<"-", "-", "-">>

FromMichael == <<"D", "e", ":", " ">> \o MichaelScott

MessageNoon ==
  <<"M", "e", "n", "s", "a", "g", "e", "m", ":", " ">> \o SeeYouAtNoon

MessageOnly == <<"M", "e", "n", "s", "a", "g", "e", "m", ":">>

(* The lines an emails file is written with: a delimiter, a sender, a      *)
(* message on the line of its marker, a marker alone, a line of text, an   *)
(* empty line.                                                             *)
ContentLines ==
  {Dashes, FromMichael, MessageNoon, MessageOnly, TobyAgain, <<>>}

EmailFiles(max_lines) == UNION {[1..n -> ContentLines] : n \in 0..max_lines}

(* The standalone detector is not running. *)
StandaloneIdle ==
  /\ csv = read_csv(all_columns, <<>>)
  /\ pc = "idle"
  /\ df = <<>>
  /\ has_categoria = TRUE
  /\ prohibited_items = <<>>
  /\ unauthorized_amounts = <<>>
  /\ smurfing_cases = <<>>
  /\ restricted_locations = <<>>
  /\ suspicious_categories = <<>>
  /\ fraudulent_transactions = <<>>
  /\ unique_frauds = <<>>
  /\ result = None
  /\ previous = <<>>
  /\ returned = {}

InitEmails ==
  /\ StandaloneIdle
  /\ agent = "none"
  /\ apc = "file"
  /\ emails = <<>>
  /\ todo = <<>>
  /\ attempt = 0
  /\ calls = 0
  /\ response = NoResponse
  /\ analysis = PyNone
  /\ suspicious_emails = <<>>
  /\ contextual_frauds = <<>>
  /\ report = None
  /\ saved = NoFile
  /\ content \in EmailFiles(MaxContentLines)
  /\ MenuIdle

(* emails = load_emails(EMAILS_PATH) *)
LoadEmails ==
  /\ apc = "file"
  /\ emails' = load_emails(content)
  /\ apc' = "loaded"
  /\ UNCHANGED <<agent, todo, attempt, calls, response, analysis,
                 suspicious_emails, contextual_frauds, report>>
  /\ UNCHANGED <<standalone_vars, main_vars>>

SpecEmails == InitEmails /\ [][LoadEmails]_vars

EmailsLoaded == apc = "loaded"

(* The delimited blocks of a file: the runs of lines between one delimiter *)
(* line (or an end of the file) and the next.                              *)
RECURSIVE blocks_from(_, _, _)
blocks_from(lines, i, block) ==
  IF i > Len(lines) THEN <<block>>
  ELSE IF is_delimiter(str_strip(lines[i]))
  THEN <<block>> \o blocks_from(lines, i + 1, <<>>)
  ELSE blocks_from(lines, i + 1, Append(block, lines[i]))

Blocks(lines) == blocks_from(lines, 1, <<>>)

(* The lines of a message. *)
RECURSIVE message_lines_from(_, _, _)
message_lines_from(message, i, line) ==
  IF i > Len(message) THEN {line}
  ELSE IF message[i] = "\n"
  THEN {line} \cup message_lines_from(message, i + 1, <<>>)
  ELSE message_lines_from(message, i + 1, Append(line, message[i]))

MessageLines(message) == message_lines_from(message, 1, <<>>)

(* Every line of the message is a line of the block, or what a line of the *)
(* block has after its marker.                                             *)
OnlyLinesOf(message, block) ==
  \A line \in MessageLines(message) :
    \E k \in 1..Len(block) :
      \/ str_strip(line) = str_strip(block[k])
      \/ /\ \E i \in 1..Len(block[k]) : block[k][i] = ":"
         /\ str_strip(line) = after_colon(block[k])

(* The block read as a file of its own yields an email. *)
BlockHasMessage(block) == load_emails(block) # <<>>

(* C27: load_emails never mixes delimited blocks.  The returned emails are *)
(* taken, in file order, from distinct blocks; the message of each holds   *)
(* only lines of its own block; and every block that has a message, a      *)
(* block without a sender line included, is the source of one of them.     *)
C27_BlocksNeverMixed ==
  EmailsLoaded =>
    LET blocks == Blocks(content)
    IN \E own \in [1..Len(emails) -> 1..Len(blocks)] :
         /\ \A j, k \in 1..Len(emails) : j < k => own[j] < own[k]
         /\ \A k \in 1..Len(emails) :
              OnlyLinesOf(emails[k].mensagem, blocks[own[k]])
         /\ \A b \in 1..Len(blocks) :
              BlockHasMessage(blocks[b]) => \E k \in 1..Len(emails) : own[k] = b

-----------------------------------------------------------------------------
(* main: the check of the data files and the menu loop.  Each detector is  *)
(* run to its end inside its wrapper: it returns, or an exception leaves   *)
(* it.  What a detector does step by step is in the specifications above.  *)

(* Largest number of inputs read at the menu prompt. *)
MaxChoices == 3

(* What can leave a call: nothing (the call returns), or an exception of   *)
(* one of these classes.                                                   *)
Raised == {"none", "ImportError", "Exception", "KeyboardInterrupt"}

(* The classes that derive from Exception; KeyboardInterrupt does not. *)
is_exception(exc) == exc \in {"ImportError", "Exception", "EOFError"}

(* The wrappers catch the ImportError only: an error of a detector leaves  *)
(* the wrapper.                                                            *)
caught_import_error_only(exc) == exc = "ImportError"

(* run_conspiracy_detector and the other three wrappers: except            *)
(* ImportError, except Exception.                                          *)
caught_by_wrapper(exc) == exc = "ImportError" \/ is_exception(exc)

(* The loop is left whatever was raised. *)
ends_loop_on_any(exc) == exc # "none"

(* main: except KeyboardInterrupt: break. *)
ends_loop(exc) == exc = "KeyboardInterrupt"

(* What leaves a wrapper whose body raised exc. *)
leaves_wrapper(exc) == IF caught_by_wrapper(exc) THEN "none" ELSE exc

(* Where main stands after the body of its try block was left by exc:      *)
(* KeyboardInterrupt breaks the loop, an Exception is printed and the loop *)
(* goes on, anything else leaves main.                                     *)
menu_after(exc) ==
  IF exc = "none" THEN "prompt"
  ELSE IF ends_loop(exc) THEN "ended"
  ELSE IF is_exception(exc) THEN "prompt"
  ELSE "left"

(* run_all_agents: the three wrappers in the order of their calls. *)
all_agents ==
  <<"run_conspiracy_detector", "run_standalone_fraud_detector",
    "run_contextual_fraud_detector">>

(* The wrapper a choice of the menu calls. *)
wrapper_of(choice) ==
  CASE choice = "2" -> "run_conspiracy_detector"
    [] choice = "3" -> "run_standalone_fraud_detector"
    [] choice = "4" -> "run_contextual_fraud_detector"

Ran(wrapper, exc) == [wrapper |-> wrapper, raised |-> exc]

InitMenu ==
  /\ StandaloneIdle
  /\ SemanticIdle
  /\ saved = NoFile
  /\ content = <<>>
  /\ menu = "check"
  /\ data_files \in {"present", "missing"}
  /\ chosen = <<>>
  /\ log = <<>>
  /\ pending = <<>>

(* config.check_data_files(): FileNotFoundError ends the program with      *)
(* sys.exit(1).                                                            *)
CheckDataFiles ==
  /\ menu = "check"
  /\ menu' = IF data_files = "present" THEN "prompt" ELSE "exited"
  /\ UNCHANGED <<data_files, chosen, log, pending>>
  /\ UNCHANGED <<standalone_vars, semantic_vars, saved, content>>

(* input(...) at the menu prompt returns the text entered. *)
Reads(entered) ==
  /\ menu = "prompt"
  /\ Len(chosen) < MaxChoices
  /\ chosen' = Append(chosen, entered)

(* choice == '0' *)
ChooseExit ==
  /\ Reads("0")
  /\ menu' = "ended"
  /\ log' = <<>>
  /\ UNCHANGED <<data_files, pending>>
  /\ UNCHANGED <<standalone_vars, semantic_vars, saved, content>>

(* choice == '1': run_compliance_rag builds its agent and opens the chat;  *)
(* an exception of the construction is caught by the wrapper.              *)
ChooseComplianceRag ==
  /\ Reads("1")
  /\ \E exc \in Raised :
       /\ log' = <<Ran("run_compliance_rag", exc)>>
       /\ menu' = IF exc = "none" THEN "chat"
                  ELSE menu_after(leaves_wrapper(exc))
  /\ UNCHANGED <<data_files, pending>>
  /\ UNCHANGED <<standalone_vars, semantic_vars, saved, content>>

(* One turn of the chat: a question that agent.query answers or fails on,  *)
(* the end of the input, an interruption.                                  *)
Ask ==
  /\ menu = "chat"
  /\ \E exc \in Raised \cup {"EOFError"} :
       /\ log' = <<Ran("run_compliance_rag", exc)>>
       /\ menu' = IF exc = "none" THEN "chat"
                  ELSE menu_after(leaves_wrapper(exc))
  /\ UNCHANGED <<data_files, chosen, pending>>
  /\ UNCHANGED <<standalone_vars, semantic_vars, saved, content>>

(* 'sair', 'exit', 'quit' or 'q' in the chat. *)
LeaveChat ==
  /\ menu = "chat"
  /\ menu' = "prompt"
  /\ UNCHANGED <<data_files, chosen, log, pending>>
  /\ UNCHANGED <<standalone_vars, semantic_vars, saved, content>>

(* choice == '2', '3' or '4': one wrapper. *)
ChooseAgent ==
  /\ \E choice \in {"2", "3", "4"}, exc \in Raised :
       /\ Reads(choice)
       /\ log' = <<Ran(wrapper_of(choice), exc)>>
       /\ menu' = menu_after(leaves_wrapper(exc))
  /\ UNCHANGED <<data_files, pending>>
  /\ UNCHANGED <<standalone_vars, semantic_vars, saved, content>>

(* choice == '5': run_all_agents is entered. *)
ChooseAllAgents ==
  /\ Reads("5")
  /\ menu' = "all"
  /\ log' = <<>>
  /\ pending' = all_agents
  /\ UNCHANGED data_files
  /\ UNCHANGED <<standalone_vars, semantic_vars, saved, content>>

(* run_all_agents calls its next wrapper; after the last it returns to the *)
(* loop.  What leaves the wrapper leaves run_all_agents, which has no try  *)
(* block, and reaches main.                                                *)
RunNextAgent ==
  /\ menu = "all"
  /\ pending # <<>>
  /\ \E exc \in Raised :
       /\ log' = Append(log, Ran(Head(pending), exc))
       /\ IF leaves_wrapper(exc) = "none"
          THEN /\ pending' = Tail(pending)
               /\ menu' = IF Tail(pending) = <<>> THEN "prompt" ELSE "all"
          ELSE /\ pending' = <<>>
               /\ menu' = menu_after(leaves_wrapper(exc))
  /\ UNCHANGED <<data_files, chosen>>
  /\ UNCHANGED <<standalone_vars, semantic_vars, saved, content>>

(* Any other text. *)
ChooseInvalid ==
  /\ \E entered \in {"", "9"} : Reads(entered)
  /\ menu' = "prompt"
  /\ log' = <<>>
  /\ UNCHANGED <<data_files, pending>>
  /\ UNCHANGED <<standalone_vars, semantic_vars, saved, content>>

(* input(...) at the menu prompt raises: Ctrl-C, or the input is at its    *)
(* end.                                                                    *)
InputRaises ==
  /\ \E exc \in {"KeyboardInterrupt", "EOFError"} :
       /\ Reads(exc)
       /\ menu' = menu_after(exc)
  /\ log' = <<>>
  /\ UNCHANGED <<data_files, pending>>
  /\ UNCHANGED <<standalone_vars, semantic_vars, saved, content>>

NextMenu ==
  \/ CheckDataFiles
  \/ ChooseExit
  \/ ChooseComplianceRag
  \/ Ask
  \/ LeaveChat
  \/ ChooseAgent
  \/ ChooseAllAgents
  \/ RunNextAgent
  \/ ChooseInvalid
  \/ InputRaises

SpecMenu == InitMenu /\ [][NextMenu]_vars

(* The last input read at the prompt was the choice of all agents. *)
AllAgentsChosen == chosen # <<>> /\ chosen[Len(chosen)] = "5"

RunAllAgentsReturned == AllAgentsChosen /\ menu = "prompt"

FixedOrder == <<"conspiracy", "standalone", "contextual">>

DetectorOf(wrapper) ==
  CASE wrapper = "run_conspiracy_detector" -> "conspiracy"
    [] wrapper = "run_standalone_fraud_detector" -> "standalone"
    [] wrapper = "run_contextual_fraud_detector" -> "contextual"
    [] OTHER -> "other"

(* C28: run_all_agents runs the conspiracy detector, the standalone fraud  *)
(* detector and the contextual fraud detector in that order: at any moment *)
(* the detectors it has run are the first ones of that order, each once;   *)
(* when it has returned all three were run; and after a detector that      *)
(* raised an exception the next one is run or is about to be run.          *)
C28_AllAgentsOnceInOrder ==
  AllAgentsChosen =>
    /\ Len(log) <= 3
    /\ \A k \in 1..Len(log) : DetectorOf(log[k].wrapper) = FixedOrder[k]
    /\ RunAllAgentsReturned => Len(log) = 3
    /\ \A k \in 1..Len(log) :
         (k < 3 /\ log[k].raised \in {"ImportError", "Exception"})
           => (Len(log) > k \/ menu = "all")

(* C28 witness: run_all_agents has returned after the conspiracy detector  *)
(* raised an exception and the standalone detector could not be imported,  *)
(* and the contextual detector was run all the same.                       *)
C28_Witness ==
  /\ RunAllAgentsReturned
  /\ Len(log) = 3
  /\ log[1].raised = "Exception"
  /\ log[2].raised = "ImportError"
  /\ DetectorOf(log[3].wrapper) = "contextual"

Interrupted ==
  \/ chosen # <<>> /\ chosen[Len(chosen)] = "KeyboardInterrupt"
  \/ log # <<>> /\ log[Len(log)].raised = "KeyboardInterrupt"

ChoseExit == chosen # <<>> /\ chosen[Len(chosen)] = "0"

DataFilesChecked == menu # "check" /\ data_files = "present"

(* C29: once the check of the data files has passed, the program is at the *)
(* menu prompt or inside the agent chosen last, unless the user chose '0'  *)
(* or interrupted, and it has ended only in these two cases: an invalid    *)
(* choice, the end of an agent and an exception of an agent all lead back  *)
(* to the prompt.                                                          *)
C29_LoopEndsOnExitOrInterrupt ==
  DataFilesChecked =>
    /\ menu \in {"prompt", "chat", "all", "ended"}
    /\ menu = "ended" <=> (ChoseExit \/ Interrupted)
    /\ menu = "chat" => chosen[Len(chosen)] = "1"
    /\ menu = "all" => AllAgentsChosen /\ pending # <<>>

(* C29 witness: after an invalid choice and after a choice whose agent     *)
(* raised an exception, the program is at the menu prompt.                 *)
C29_Witness ==
  /\ DataFilesChecked
  /\ menu = "prompt"
  /\ Len(chosen) = 2
  /\ chosen[1] = "9"
  /\ chosen[2] = "3"
  /\ log = <<Ran("run_standalone_fraud_detector", "Exception")>>

-----------------------------------------------------------------------------
(* The unauthorized-amount rule and the smurfing rule on one table. *)

(* The ids a SMURFING violation references. *)
PairIds(v) == {v.transaction.id_1, v.transaction.id_2}

(* C30: on a table whose transaction ids are unique, no transaction is     *)
(* referenced both by a violation of _check_unauthorized_amounts and by a  *)
(* violation of _check_smurfing of the same run; and two rows whose        *)
(* amounts are both in [300, 500] always add up to more than 500, so the   *)
(* test of the sum rejects no pair the range test let through.             *)
C30_UnauthorizedAndSmurfingDisjoint ==
  (AfterSmurfing /\ UniqueIds(df)) =>
    /\ \A u \in 1..Len(unauthorized_amounts), s \in 1..Len(smurfing_cases) :
         unauthorized_amounts[u].transaction.id_transacao
           \notin PairIds(smurfing_cases[s])
    /\ \A i, j \in 1..Len(df) :
         (i # j /\ InRange(df[i]) /\ InRange(df[j]))
           => df[i].valor + df[j].valor > 500

(* C30 witness: a table of unique ids on which the same run emitted an     *)
(* unauthorized-amount violation and a SMURFING violation.                 *)
C30_Witness ==
  /\ AfterSmurfing
  /\ UniqueIds(df)
  /\ unauthorized_amounts # <<>>
  /\ smurfing_cases # <<>>

====
